---- MODULE Spec2Model ----
(***************************************************************************)
(* A model of the SDLC-bedrock tools: the agentic requirements-to-JIRA     *)
(* converter (jira-agent.py), the plain converter (jira.py), the diagram    *)
(* generator (diagram.py), the requirements generator                       *)
(* (generate-enh-req.py) and the logger they share (logger.py).             *)
(*                                                                         *)
(* Python text is a sequence of one-character strings.  Python values are   *)
(* pairs <<tag, payload>>: <<"none", <<>>>>, <<"str", chars>>,               *)
(* <<"num", digits>>, <<"arr", items>>, <<"obj", <<key, value>> pairs in    *)
(* insertion order>>.                                                       *)
(***************************************************************************)
EXTENDS Integers, Sequences, FiniteSets, TLC

(***************************************************************************)
(* Bounds of the model.                                                    *)
(***************************************************************************)
\* longest task list a breakdown response of the workflow model holds
MaxTasks == 2
\* longest free text enumerated exhaustively for the extraction functions
MaxLen == 3
\* "Break Down into Tasks" of jira.py is clicked only while the session holds
\* fewer stories
MaxStories == 2
\* LLMLogger instances constructed in the process, and records logged
MaxInstances == 3
MaxRecords == 2

(***************************************************************************)
(* Python values.                                                          *)
(***************************************************************************)
None == <<"none", <<>>>>
Str(chars) == <<"str", chars>>
Num(digits) == <<"num", digits>>
Arr(items) == <<"arr", items>>
Obj(pairs) == <<"obj", pairs>>
Tag(v) == v[1]
Payload(v) == v[2]

\* Python truthiness: None, "", [] and {} are false; a number is false when 0.
Truthy(v) ==
  CASE Tag(v) = "none" -> FALSE
    [] Tag(v) = "num" -> Payload(v) # <<"0">>
    [] OTHER -> Payload(v) # <<>>

SetMin(S) == CHOOSE x \in S : \A y \in S : x <= y
SetMax(S) == CHOOSE x \in S : \A y \in S : x >= y

\* str.find(ch): 0-based index of the first occurrence, -1 when there is none
Find(s, ch) ==
  LET hits == {i \in 1..Len(s) : s[i] = ch}
  IN IF hits = {} THEN -1 ELSE SetMin(hits) - 1

\* str.rfind(ch): 0-based index of the last occurrence, -1 when there is none
RFind(s, ch) ==
  LET hits == {i \in 1..Len(s) : s[i] = ch}
  IN IF hits = {} THEN -1 ELSE SetMax(hits) - 1

\* s[a:b] for a, b >= 0
Slice(s, a, b) ==
  LET hi == IF b > Len(s) THEN Len(s) ELSE b
  IN IF a >= hi THEN <<>> ELSE SubSeq(s, a + 1, hi)

(***************************************************************************)
(* json.loads, on texts over brackets, braces, comma, colon, double quote,  *)
(* whitespace, decimal digits and letters (no backslash, no other control  *)
(* character, no sign, fraction or exponent, none of the literals           *)
(* true/false/null).                                                        *)
(* Positions are 1-based; a result is [ok, val, end], end being the         *)
(* position after the parsed value.                                         *)
(***************************************************************************)
Whitespace == {" ", "\t", "\n", "\r"}
Digits == {"0", "1", "2", "3", "4", "5", "6", "7", "8", "9"}
Quote == "\""

ParseFail == [ok |-> FALSE, val |-> None, end |-> 0]
ParseOk(v, e) == [ok |-> TRUE, val |-> v, end |-> e]

RECURSIVE SkipWs(_, _)
SkipWs(s, i) ==
  IF i <= Len(s) /\ s[i] \in Whitespace THEN SkipWs(s, i + 1) ELSE i

RECURSIVE QuoteAt(_, _)
QuoteAt(s, i) ==
  IF i > Len(s) THEN 0 ELSE IF s[i] = Quote THEN i ELSE QuoteAt(s, i + 1)

\* py_scanstring: i is the position after the opening quote; the string ends
\* at the next double quote
ScanString(s, i) ==
  LET j == QuoteAt(s, i)
  IN IF j = 0 THEN ParseFail ELSE ParseOk(Str(SubSeq(s, i, j - 1)), j + 1)

RECURSIVE DigitsEnd(_, _)
DigitsEnd(s, i) ==
  IF i <= Len(s) /\ s[i] \in Digits THEN DigitsEnd(s, i + 1) ELSE i

\* NUMBER_RE: (0|[1-9][0-9]*); s[i] is a digit
ScanNumber(s, i) ==
  IF s[i] = "0" THEN ParseOk(Num(<<"0">>), i + 1)
  ELSE LET e == DigitsEnd(s, i) IN ParseOk(Num(SubSeq(s, i, e - 1)), e)

\* dict[key] = value: a repeated key keeps its place and takes the new value
DictSet(pairs, key, value) ==
  LET at == {k \in 1..Len(pairs) : pairs[k][1] = key}
  IN IF at = {} THEN Append(pairs, <<key, value>>)
     ELSE [pairs EXCEPT ![SetMin(at)] = <<key, value>>]

RECURSIVE ScanOnce(_, _), ArrayItems(_, _, _), ObjectItems(_, _, _)

ScanOnce(s, i) ==
  IF i > Len(s) THEN ParseFail
  ELSE CASE s[i] = Quote -> ScanString(s, i + 1)
         [] s[i] = "{" ->
              LET j == SkipWs(s, i + 1)
              IN IF j <= Len(s) /\ s[j] = "}" THEN ParseOk(Obj(<<>>), j + 1)
                 ELSE ObjectItems(s, j, <<>>)
         [] s[i] = "[" ->
              LET j == SkipWs(s, i + 1)
              IN IF j <= Len(s) /\ s[j] = "]" THEN ParseOk(Arr(<<>>), j + 1)
                 ELSE ArrayItems(s, j, <<>>)
         [] s[i] \in Digits -> ScanNumber(s, i)
         [] OTHER -> ParseFail

\* JSONArray's loop: i is where the next item must start
ArrayItems(s, i, acc) ==
  LET item == ScanOnce(s, i)
  IN IF ~item.ok THEN ParseFail
     ELSE LET j == SkipWs(s, item.end)
              vals == Append(acc, item.val)
          IN IF j > Len(s) THEN ParseFail
             ELSE IF s[j] = "]" THEN ParseOk(Arr(vals), j + 1)
             ELSE IF s[j] = "," THEN ArrayItems(s, SkipWs(s, j + 1), vals)
             ELSE ParseFail

\* JSONObject's loop: i is where the next key's opening quote must be
ObjectItems(s, i, acc) ==
  IF i > Len(s) \/ s[i] # Quote THEN ParseFail
  ELSE LET key == ScanString(s, i + 1)
       IN IF ~key.ok THEN ParseFail
          ELSE LET c == SkipWs(s, key.end)
               IN IF c > Len(s) \/ s[c] # ":" THEN ParseFail
                  ELSE LET item == ScanOnce(s, SkipWs(s, c + 1))
                       IN IF ~item.ok THEN ParseFail
                          ELSE LET j == SkipWs(s, item.end)
                                   pairs == DictSet(acc, Payload(key.val), item.val)
                               IN IF j > Len(s) THEN ParseFail
                                  ELSE IF s[j] = "}" THEN ParseOk(Obj(pairs), j + 1)
                                  ELSE IF s[j] = ","
                                    THEN ObjectItems(s, SkipWs(s, j + 1), pairs)
                                  ELSE ParseFail

\* json.loads(s): one value, blanks around it, nothing else ("Extra data").
\* ok = FALSE stands for json.JSONDecodeError.
json_loads(s) ==
  LET r == ScanOnce(s, SkipWs(s, 1))
  IN IF r.ok /\ SkipWs(s, r.end) = Len(s) + 1 THEN r ELSE ParseFail

(***************************************************************************)
(* json.dumps with the separators ", " and ": " (pretty) or "," and ":"     *)
(* (compact): the texts that denote a value.                                *)
(***************************************************************************)
RECURSIVE Dumps(_, _), DumpItems(_, _), DumpPairs(_, _)
Dumps(v, pretty) ==
  CASE Tag(v) = "str" -> <<Quote>> \o Payload(v) \o <<Quote>>
    [] Tag(v) = "num" -> Payload(v)
    [] Tag(v) = "arr" -> <<"[">> \o DumpItems(Payload(v), pretty) \o <<"]">>
    [] Tag(v) = "obj" -> <<"{">> \o DumpPairs(Payload(v), pretty) \o <<"}">>

DumpItems(items, pretty) ==
  IF items = <<>> THEN <<>>
  ELSE Dumps(Head(items), pretty)
       \o (IF Len(items) = 1 THEN <<>>
           ELSE <<",">> \o (IF pretty THEN <<" ">> ELSE <<>>)
                \o DumpItems(Tail(items), pretty))

DumpPairs(pairs, pretty) ==
  IF pairs = <<>> THEN <<>>
  ELSE <<Quote>> \o Head(pairs)[1] \o <<Quote, ":">>
       \o (IF pretty THEN <<" ">> ELSE <<>>)
       \o Dumps(Head(pairs)[2], pretty)
       \o (IF Len(pairs) = 1 THEN <<>>
           ELSE <<",">> \o (IF pretty THEN <<" ">> ELSE <<>>)
                \o DumpPairs(Tail(pairs), pretty))

(***************************************************************************)
(* What one invoke_model attempt does: it raises exc, or it returns a       *)
(* response whose text is text.                                             *)
(***************************************************************************)
Exceptions == {"ThrottlingException", "TimeoutError"}
Raises(e) == [raised |-> TRUE, exc |-> e, text |-> <<>>]
Returns(t) == [raised |-> FALSE, exc |-> "", text |-> t]
NoOutcome == [raised |-> FALSE, exc |-> "none", text |-> <<>>]

\* The six fields of a story; the model abbreviates each key to one letter.
Summary == <<"S">>
Description == <<"D">>
AcceptanceCriteria == <<"A">>
StoryPoints == <<"P">>
Priority == <<"R">>
Labels == <<"L">>
StoryFields ==
  {Summary, Description, AcceptanceCriteria, StoryPoints, Priority, Labels}

Keys(obj) == {Payload(obj)[k][1] : k \in 1..Len(Payload(obj))}

FullStory ==
  Obj(<< <<Summary, Str(<<"x">>)>>, <<Description, Str(<<"x">>)>>,
         <<AcceptanceCriteria, Str(<<"x">>)>>, <<StoryPoints, Num(<<"3">>)>>,
         <<Priority, Str(<<"x">>)>>, <<Labels, Arr(<<Str(<<"x">>)>>)>> >>)
PartialStory == Obj(<< <<Summary, Str(<<"x">>)>> >>)

\* Texts the model answers the expansion prompt with
ExpandTexts == {<<>>, <<"x">>}

\* Task descriptions the model may put into its array: a string, or (against
\* the prompt) a number
TaskItems == {Str(<<"x">>), Num(<<"1">>)}
TaskLists == UNION {[1..n -> TaskItems] : n \in 0..MaxTasks}

\* Texts the model answers the breakdown prompt with: empty, prose without a
\* bracket, an array cut short, and every task list, bare or inside prose
BreakdownTexts ==
  {<<>>, <<"x">>, <<"[", Quote, "x", Quote>>}
    \cup {Dumps(Arr(ts), TRUE) : ts \in TaskLists}
    \cup {<<"x", " ">> \o Dumps(Arr(ts), FALSE) \o <<" ", "x">> :
            ts \in {<<Str(<<"x">>)>>}}

\* Texts the model answers the story prompt with: empty, prose without a
\* brace, an object cut short, the empty object, a story with one field, a
\* story with all six fields, bare or inside prose
StoryTexts ==
  {<<>>, <<"x">>, <<"{", Quote, "S", Quote, ":">>, <<"{", "}">>,
   Dumps(PartialStory, FALSE), Dumps(FullStory, TRUE),
   <<"x", " ">> \o Dumps(FullStory, FALSE) \o <<" ", "x">>}

Outcomes(texts) == {Raises(e) : e \in Exceptions} \cup {Returns(t) : t \in texts}

(***************************************************************************)
(* jira-agent.py: AgentState.  messages and completed_steps are logs that    *)
(* nothing reads back except the display of the last ten messages; they are *)
(* left out.                                                                *)
(***************************************************************************)
NoError == [msg |-> "", detail |-> ""]
ErrorMsg(m, d) == [msg |-> m, detail |-> d]

\* AgentState.__init__
AgentState == [current_step |-> "idle", progress |-> 0, error |-> NoError]
\* st.session_state.agent_state = None
NoAgentState == [current_step |-> "None", progress |-> 0, error |-> NoError]

update_step(st, step, progress) ==
  [st EXCEPT !.current_step = step, !.progress = progress]

\* set_error putting the progress back to 0
set_error_resets_progress(st, error) ==
  [st EXCEPT !.error = error, !.current_step = "error", !.progress = 0]

set_error(st, error) ==
  [st EXCEPT !.error = error, !.current_step = "error"]

(***************************************************************************)
(* jira-agent.py: safe_bedrock_call.  A call record holds the loop variable *)
(* attempt, the number of invoke_model attempts made, the seconds slept      *)
(* after each failed attempt, and how the call ended.                        *)
(***************************************************************************)
max_retries == 3

RECURSIVE Pow2(_)
Pow2(n) == IF n = 0 THEN 1 ELSE 2 * Pow2(n - 1)

RECURSIVE Sum(_)
Sum(seq) == IF seq = <<>> THEN 0 ELSE Head(seq) + Sum(Tail(seq))

NewCall ==
  [status |-> "running", attempt |-> 0, made |-> 0, slept |-> <<>>,
   text |-> <<>>, exc |-> ""]
NoCall == [NewCall EXCEPT !.status = "none"]

\* safe_bedrock_call with the retry bound off by one: a fourth attempt
safe_bedrock_call_one_more(c, outcome) ==
  IF ~outcome.raised
    THEN [c EXCEPT !.status = "returned", !.made = @ + 1, !.text = outcome.text]
  ELSE IF c.attempt < max_retries
    THEN [c EXCEPT !.attempt = @ + 1, !.made = @ + 1,
                   !.slept = Append(@, Pow2(c.attempt))]
  ELSE [c EXCEPT !.status = "raised", !.made = @ + 1, !.exc = outcome.exc]

\* safe_bedrock_call sleeping after every failed attempt, the last included
safe_bedrock_call_sleeps_last(c, outcome) ==
  IF ~outcome.raised
    THEN [c EXCEPT !.status = "returned", !.made = @ + 1, !.text = outcome.text]
  ELSE IF c.attempt < max_retries - 1
    THEN [c EXCEPT !.attempt = @ + 1, !.made = @ + 1,
                   !.slept = Append(@, Pow2(c.attempt))]
  ELSE [c EXCEPT !.status = "raised", !.made = @ + 1, !.exc = outcome.exc,
                 !.slept = Append(@, Pow2(c.attempt))]

\* One iteration of the retry loop, given what invoke_model does
safe_bedrock_call(c, outcome) ==
  IF ~outcome.raised
    THEN [c EXCEPT !.status = "returned", !.made = @ + 1, !.text = outcome.text]
  ELSE IF c.attempt < max_retries - 1
    THEN [c EXCEPT !.attempt = @ + 1, !.made = @ + 1,
                   !.slept = Append(@, Pow2(c.attempt))]
  ELSE [c EXCEPT !.status = "raised", !.made = @ + 1, !.exc = outcome.exc]

\* the call record at the top of an iteration: a fresh one when the previous
\* call has ended
Entered(c) == IF c.status = "running" THEN c ELSE NewCall


(***************************************************************************)
(* logger.py: LLMLogger.  The logger named 'LLMLogger' is one object of the *)
(* process, shared by every instance: its level, its handlers in the order  *)
(* they were added, the instances constructed, the log_file of the first of *)
(* them, the records issued, and the lines written: the sink (a file name,  *)
(* or "console"), the number of the record and its level.                   *)
(***************************************************************************)
INFO == 20
WARNING == 30
ERROR == 40

\* log_file arguments: None, which gives a name made of the time, or a name
LogFiles == {"llm_operations_timestamp.log", "a.log"}
LogLevels == {INFO, WARNING, ERROR}

Handler(kind, level, sink) == [kind |-> kind, level |-> level, sink |-> sink]

\* the logger before any instance: no level of its own, so that of the root
\* logger
NoLogger ==
  [level |-> WARNING, handlers |-> <<>>, instances |-> 0, first_file |-> "",
   records |-> 0, written |-> <<>>]

_setup_logger(lg, log_file) ==
  [lg EXCEPT !.handlers = @ \o <<Handler("file", INFO, log_file),
                                  Handler("console", WARNING, "console")>>]

\* what makes __init__ raise: os.makedirs, or logging.FileHandler opening the
\* file
InitOutcomes == {"ok", "makedirs raises", "open raises"}

\* __init__ without the test of self.logger.handlers
LLMLogger_always_sets_up(lg, log_file, log_level, outcome) ==
  LET leveled == [lg EXCEPT !.level = log_level]
      made(l) == [l EXCEPT !.instances = @ + 1,
                           !.first_file = IF lg.instances = 0 THEN log_file ELSE @]
  IN IF outcome = "makedirs raises" THEN lg
     ELSE IF outcome = "open raises" THEN leveled
     ELSE made(_setup_logger(leveled, log_file))

\* LLMLogger.__init__
LLMLogger(lg, log_file, log_level, outcome) ==
  LET leveled == [lg EXCEPT !.level = log_level]
      made(l) == [l EXCEPT !.instances = @ + 1,
                           !.first_file = IF lg.instances = 0 THEN log_file ELSE @]
  IN IF outcome = "makedirs raises" THEN lg
     ELSE IF leveled.handlers # <<>> THEN made(leveled)
     ELSE IF outcome = "open raises" THEN leveled
     ELSE made(_setup_logger(leveled, log_file))

\* Logger.callHandlers: the lines the handlers from k on write for a record
RECURSIVE callHandlers(_, _, _, _)
callHandlers(handlers, k, id, levelno) ==
  IF k > Len(handlers) THEN <<>>
  ELSE (IF levelno >= handlers[k].level
          THEN <<[sink |-> handlers[k].sink, id |-> id, levelno |-> levelno]>>
        ELSE <<>>) \o callHandlers(handlers, k + 1, id, levelno)

\* self.logger.info(...) and self.logger.error(...): a record of level
\* levelno
log(lg, levelno) ==
  LET id == lg.records + 1
  IN IF levelno >= lg.level
       THEN [lg EXCEPT !.records = id,
                       !.written = @ \o callHandlers(lg.handlers, 1, id, levelno)]
     ELSE [lg EXCEPT !.records = id]
(***************************************************************************)
(* jira-agent.py: the three agents, from the end of their safe_bedrock_call *)
(* on.  Each gives the value returned, the agent state left behind and the  *)
(* exception it lets through ("" when none: each body is inside             *)
(* try ... except Exception).                                               *)
(***************************************************************************)
expand_requirement_agent(c, st) ==
  IF c.status = "raised"
    THEN [ret |-> None,
          st |-> set_error(st, ErrorMsg("Error expanding requirement: ", c.exc)), exc |-> ""]
  ELSE IF c.text # <<>>
    THEN [ret |-> Str(c.text), st |-> update_step(st, "expanded", 30), exc |-> ""]
  ELSE [ret |-> None,
        st |-> set_error(st,
                 ErrorMsg("Failed to expand requirement - empty response", "")), exc |-> ""]

\* breakdown_requirement_agent returning None for an empty response without
\* set_error
breakdown_requirement_agent_silent(c, st) ==
  IF c.status = "raised"
    THEN [ret |-> None,
          st |-> set_error(st,
                   ErrorMsg("Error breaking down requirement: ", c.exc)), exc |-> ""]
  ELSE IF c.text = <<>>
    THEN [ret |-> None, st |-> st, exc |-> ""]
  ELSE LET content == c.text
           start_idx == Find(content, "[")
           end_idx == RFind(content, "]") + 1
       IN IF start_idx # -1 /\ end_idx # -1
            THEN LET tasks == json_loads(Slice(content, start_idx, end_idx))
                 IN IF tasks.ok
                      THEN [ret |-> tasks.val,
                            st |-> update_step(st, "broken_down", 60), exc |-> ""]
                      ELSE [ret |-> None,
                            st |-> set_error(st,
                                     ErrorMsg("Error parsing task JSON: ",
                                              "JSONDecodeError")), exc |-> ""]
          ELSE [ret |-> None,
                st |-> set_error(st,
                         ErrorMsg("Could not find valid task list in response",
                                  "")), exc |-> ""]

breakdown_requirement_agent(c, st) ==
  IF c.status = "raised"
    THEN [ret |-> None,
          st |-> set_error(st,
                   ErrorMsg("Error breaking down requirement: ", c.exc)), exc |-> ""]
  ELSE IF c.text = <<>>
    THEN [ret |-> None,
          st |-> set_error(st, ErrorMsg("Failed to get breakdown response", "")), exc |-> ""]
  ELSE LET content == c.text
           start_idx == Find(content, "[")
           end_idx == RFind(content, "]") + 1
       IN IF start_idx # -1 /\ end_idx # -1
            THEN LET tasks == json_loads(Slice(content, start_idx, end_idx))
                 IN IF tasks.ok
                      THEN [ret |-> tasks.val,
                            st |-> update_step(st, "broken_down", 60), exc |-> ""]
                      ELSE [ret |-> None,
                            st |-> set_error(st,
                                     ErrorMsg("Error parsing task JSON: ",
                                              "JSONDecodeError")), exc |-> ""]
          ELSE [ret |-> None,
                st |-> set_error(st,
                         ErrorMsg("Could not find valid task list in response",
                                  "")), exc |-> ""]

\* requirement[:50] of the "Generating story" message works on a str or a
\* list; on any other value it raises, inside the try
Sliceable(requirement) == Tag(requirement) \in {"str", "arr"}

\* create_jira_story_agent up to its safe_bedrock_call
story_progress(task_num, total_tasks) == 60 + ((task_num * 30) \div total_tasks)

\* create_jira_story_agent returning only an object that has the six fields
create_jira_story_agent_checks_fields(c, st) ==
  IF c.status = "raised" THEN [ret |-> None, st |-> st, exc |-> ""]
  ELSE IF c.text = <<>> THEN [ret |-> None, st |-> st, exc |-> ""]
  ELSE LET content == c.text
           start_idx == Find(content, "{")
           end_idx == RFind(content, "}") + 1
       IN IF start_idx # -1 /\ end_idx # -1
            THEN LET story == json_loads(Slice(content, start_idx, end_idx))
                 IN IF story.ok /\ Tag(story.val) = "obj"
                       /\ StoryFields \subseteq Keys(story.val)
                      THEN [ret |-> story.val, st |-> st, exc |-> ""]
                    ELSE [ret |-> None, st |-> st, exc |-> ""]
          ELSE [ret |-> None, st |-> st, exc |-> ""]

\* create_jira_story_agent reporting a failed call with set_error
create_jira_story_agent_sets_error(c, st) ==
  IF c.status = "raised"
    THEN [ret |-> None,
          st |-> set_error(st, ErrorMsg("Error creating story: ", c.exc)), exc |-> ""]
  ELSE IF c.text = <<>> THEN [ret |-> None, st |-> st, exc |-> ""]
  ELSE LET content == c.text
           start_idx == Find(content, "{")
           end_idx == RFind(content, "}") + 1
       IN IF start_idx # -1 /\ end_idx # -1
            THEN LET story == json_loads(Slice(content, start_idx, end_idx))
                 IN IF story.ok THEN [ret |-> story.val, st |-> st, exc |-> ""]
                    ELSE [ret |-> None, st |-> st, exc |-> ""]
          ELSE [ret |-> None, st |-> st, exc |-> ""]

create_jira_story_agent(c, st) ==
  IF c.status = "raised" THEN [ret |-> None, st |-> st, exc |-> ""]
  ELSE IF c.text = <<>> THEN [ret |-> None, st |-> st, exc |-> ""]
  ELSE LET content == c.text
           start_idx == Find(content, "{")
           end_idx == RFind(content, "}") + 1
       IN IF start_idx # -1 /\ end_idx # -1
            THEN LET story == json_loads(Slice(content, start_idx, end_idx))
                 IN IF story.ok THEN [ret |-> story.val, st |-> st, exc |-> ""]
                    ELSE [ret |-> None, st |-> st, exc |-> ""]
          ELSE [ret |-> None, st |-> st, exc |-> ""]

(***************************************************************************)
(* jira.py: the three functions, given what their single invoke_model      *)
(* attempt does.  err is the st.error message shown, "" when none; exc is   *)
(* the exception let through, "" when none.                                 *)
(***************************************************************************)
expand_requirement(outcome) ==
  IF outcome.raised
    THEN [ret |-> None, err |-> "Error expanding requirement: ", exc |-> ""]
  ELSE [ret |-> Str(outcome.text), err |-> "", exc |-> ""]

\* breakdown_requirement looking for braces, as create_jira_story does
breakdown_requirement_braces(outcome) ==
  IF outcome.raised
    THEN [ret |-> None, err |-> "Error breaking down requirement: ", exc |-> ""]
  ELSE LET content == outcome.text
           start_idx == Find(content, "{")
           end_idx == RFind(content, "}") + 1
       IN IF start_idx # -1 /\ end_idx # -1
            THEN LET tasks == json_loads(Slice(content, start_idx, end_idx))
                 IN IF tasks.ok THEN [ret |-> tasks.val, err |-> "", exc |-> ""]
                    ELSE [ret |-> None, err |-> "Error breaking down requirement: ", exc |-> ""]
          ELSE [ret |-> None,
                err |-> "Could not find valid task list in Claude's response", exc |-> ""]

breakdown_requirement(outcome) ==
  IF outcome.raised
    THEN [ret |-> None, err |-> "Error breaking down requirement: ", exc |-> ""]
  ELSE LET content == outcome.text
           start_idx == Find(content, "[")
           end_idx == RFind(content, "]") + 1
       IN IF start_idx # -1 /\ end_idx # -1
            THEN LET tasks == json_loads(Slice(content, start_idx, end_idx))
                 IN IF tasks.ok THEN [ret |-> tasks.val, err |-> "", exc |-> ""]
                    ELSE [ret |-> None, err |-> "Error breaking down requirement: ", exc |-> ""]
          ELSE [ret |-> None,
                err |-> "Could not find valid task list in Claude's response", exc |-> ""]

\* create_jira_story cutting at the first closing brace (find for rfind)
create_jira_story_first_brace(outcome) ==
  IF outcome.raised
    THEN [ret |-> None, err |-> "Error creating JIRA story: ", exc |-> ""]
  ELSE LET content == outcome.text
           start_idx == Find(content, "{")
           end_idx == Find(content, "}") + 1
       IN IF start_idx # -1 /\ end_idx # -1
            THEN LET story == json_loads(Slice(content, start_idx, end_idx))
                 IN IF story.ok THEN [ret |-> story.val, err |-> "", exc |-> ""]
                    ELSE [ret |-> None, err |-> "Error creating JIRA story: ", exc |-> ""]
          ELSE [ret |-> None, err |-> "Could not find valid JSON in Claude's response", exc |-> ""]

create_jira_story(outcome) ==
  IF outcome.raised
    THEN [ret |-> None, err |-> "Error creating JIRA story: ", exc |-> ""]
  ELSE LET content == outcome.text
           start_idx == Find(content, "{")
           end_idx == RFind(content, "}") + 1
       IN IF start_idx # -1 /\ end_idx # -1
            THEN LET story == json_loads(Slice(content, start_idx, end_idx))
                 IN IF story.ok THEN [ret |-> story.val, err |-> "", exc |-> ""]
                    ELSE [ret |-> None, err |-> "Error creating JIRA story: ", exc |-> ""]
          ELSE [ret |-> None, err |-> "Could not find valid JSON in Claude's response", exc |-> ""]

(***************************************************************************)
(* State.                                                                  *)
(*   tool               which tool's page this session is                   *)
(*   pc                 where the running script is: "idle" when no script *)
(*                      runs and the page stands rendered, "rerun" when a   *)
(*                      script run is about to start, otherwise the call    *)
(*                      the script is in                                    *)
(*   basic_requirement  the text area's value (jira-agent.py, jira.py)      *)
(*   widgets            the widget values of diagram.py and                 *)
(*                      generate-enh-req.py                                 *)
(*   session            st.session_state                                    *)
(*   uncaught           the exception that ended the last script run of     *)
(*                      main, "" when it ended normally                     *)
(*   shown              the st.error, st.warning, st.info and st.success    *)
(*                      messages of the current or last script run          *)
(*   agent_state, detailed_requirement, tasks, stories, task_num            *)
(*                      locals of run_agent_workflow; tasks and task_num   *)
(*                      also the loop of jira.py's main                     *)
(*   script             locals of main in generate-enh-req.py               *)
(*   call               locals of the current or last safe_bedrock_call     *)
(*   last               what the last API call attempt did                  *)
(*   calls              the model calls issued so far by run_agent_workflow *)
(*                      or by the script run of jira.py, <<kind, task       *)
(*                      number>> each                                       *)
(*   attempts           the invoke_model attempts made so far by           *)
(*                      run_agent_workflow, counted in the specification   *)
(*                      of one workflow run; -1 where they are not counted *)
(*   ret                what run_agent_workflow returned                    *)
(*   runs               executions of run_agent_workflow started since the  *)
(*                      last click on the start button (counted up to 2)    *)
(*   content            a response text given to the extraction functions   *)
(*   extracted          the function applied to it last and what it         *)
(*                      returned                                            *)
(*   responses          the texts the model answers with where jira.py and  *)
(*                      jira-agent.py are run on the same responses: one    *)
(*                      for the expansion, one for the breakdown, one per   *)
(*                      task                                                *)
(*   logger             logger.py: the logger logging.getLogger('LLMLogger') *)
(*                      of the process, its handlers, and the lines written *)
(*                      so far                                              *)
(***************************************************************************)
VARIABLES tool, pc, basic_requirement, widgets, session, uncaught, shown,
          agent_state, detailed_requirement, tasks, stories, task_num,
          script, call, last, calls, attempts, ret, runs,
          content, extracted, responses, logger

vars == <<tool, pc, basic_requirement, widgets, session, uncaught, shown,
          agent_state, detailed_requirement, tasks, stories, task_num,
          script, call, last, calls, attempts, ret, runs, content,
          extracted, responses, logger>>

ui == <<basic_requirement, session, uncaught, shown, runs>>
locals == <<agent_state, detailed_requirement, tasks, stories, task_num>>
monitors == <<call, last, calls, attempts>>
parsing == <<content, extracted, responses, logger>>
elsewhere == <<widgets, script, content, extracted, responses, logger>>

NoRet == [agent_state |-> NoAgentState, detailed_requirement |-> None,
          stories |-> <<>>]
NoExtract == [fn |-> "", ret |-> None]
NoWidgets == <<>>
NoScript == <<>>
\* an input of the extraction functions: the text, and for a text put together
\* as prefix + json.dumps(value) + suffix its three parts (value None otherwise)
Content(text, prefix, value, suffix) ==
  [text |-> text, prefix |-> prefix, value |-> value, suffix |-> suffix]
NoContent == Content(<<>>, <<>>, None, <<>>)
NoResponses == [expand |-> <<>>, breakdown |-> <<>>, story |-> <<>>]

RequirementTexts == {<<>>, <<"x">>}

\* one message on the page: st.error, st.warning, st.info or st.success
Message(level, msg, arg) == [level |-> level, msg |-> msg, arg |-> arg]
Error(msg) == Message("error", msg, "")

(***************************************************************************)
(* jira-agent.py: main.                                                    *)
(***************************************************************************)
AgentSession0 ==
  [agent_state |-> NoAgentState, detailed_requirement |-> None,
   stories |-> <<>>, workflow_running |-> FALSE]

\* The story display and create_pdf_report index the six keys of every story
StoryKeyError(ss) == \E k \in 1..Len(ss) : ~(StoryFields \subseteq Keys(ss[k]))

\* main, "Agent Status" of a run that does not run the workflow: the message
AgentStatus(s) ==
  IF s.agent_state = NoAgentState
    THEN {Message("info", "Ready to start workflow...", "")}
  ELSE IF s.agent_state.current_step = "error"
    THEN {Message("error", "Error: ", s.agent_state.error.msg)}
  ELSE IF s.agent_state.current_step = "completed"
    THEN {Message("success", "Workflow completed successfully!", "")}
  ELSE {Message("info", "Current step: ", s.agent_state.current_step)}

\* main from "Display results" on: the exception it ends with
AgentDisplay(s) == IF StoryKeyError(s.stories) THEN "KeyError" ELSE ""

LocalsInit ==
  /\ agent_state = NoAgentState
  /\ detailed_requirement = None
  /\ tasks = None
  /\ stories = <<>>
  /\ task_num = 0
  /\ call = NoCall
  /\ last = NoOutcome
  /\ calls = <<>>
  /\ attempts = -1
  /\ ret = NoRet
  /\ runs = 0

ParseIdle ==
  /\ content = NoContent /\ extracted = NoExtract
  /\ responses = NoResponses /\ logger = NoLogger

InitAgent ==
  /\ tool = "agent"
  /\ pc = "idle"
  /\ basic_requirement = <<>>
  /\ widgets = NoWidgets
  /\ session = AgentSession0
  /\ uncaught = ""
  /\ shown = AgentStatus(AgentSession0)
  /\ script = NoScript
  /\ LocalsInit
  /\ ParseIdle

\* the user edits the text area; the script run that follows only displays
EditRequirement(text) ==
  /\ tool = "agent" /\ pc = "idle"
  /\ ~session.workflow_running
  /\ text # basic_requirement
  /\ basic_requirement' = text
  /\ shown' = AgentStatus(session)
  /\ uncaught' = AgentDisplay(session)
  /\ UNCHANGED <<tool, pc, session, runs, locals, monitors, ret, elsewhere>>

\* a click on the start button, enabled as it was rendered: the run sets
\* workflow_running and calls st.rerun()
ClickStart ==
  /\ tool = "agent" /\ pc = "idle"
  /\ ~(session.workflow_running \/ basic_requirement = <<>>)
  /\ session' = [session EXCEPT !.workflow_running = TRUE]
  /\ pc' = "rerun"
  /\ runs' = 0
  /\ shown' = {}
  /\ uncaught' = ""
  /\ UNCHANGED <<tool, basic_requirement, locals, monitors, ret, elsewhere>>

\* a script run with workflow_running set: run_agent_workflow up to the
\* safe_bedrock_call of expand_requirement_agent
StartWorkflow ==
  /\ tool = "agent" /\ pc = "rerun"
  /\ session.workflow_running
  /\ agent_state' = update_step(AgentState, "expanding", 10)
  /\ pc' = "expand"
  /\ runs' = (IF runs < 2 THEN runs + 1 ELSE runs)
  /\ shown' = {}
  /\ UNCHANGED <<tool, basic_requirement, session, uncaught,
                 detailed_requirement, tasks, stories, task_num,
                 monitors, ret, elsewhere>>

\* a script run with workflow_running clear: the page is displayed
Display ==
  /\ tool = "agent" /\ pc = "rerun"
  /\ ~session.workflow_running
  /\ pc' = "idle"
  /\ shown' = AgentStatus(session)
  /\ uncaught' = AgentDisplay(session)
  /\ UNCHANGED <<tool, basic_requirement, session, runs, locals, monitors,
                 ret, elsewhere>>

\* the attempts counter after one more attempt, and at the end of a workflow
Count(n) == IF n < 0 THEN n ELSE n + 1
Recount(n) == IF n < 0 THEN n ELSE 0

\* the calls log after an attempt of the call <<kind, n>>
Logged(kind, n) ==
  IF Entered(call).made = 0 THEN Append(calls, <<kind, n>>) ELSE calls

\* return agent_state, detailed_requirement, stories
Return(st, dr, ss) ==
  /\ ret' = [agent_state |-> st, detailed_requirement |-> dr, stories |-> ss]
  /\ agent_state' = st
  /\ pc' = "returned"
  /\ UNCHANGED uncaught

\* an exception nothing in run_agent_workflow or main catches ends the
\* script run
Propagate(exc) ==
  /\ uncaught' = exc
  /\ pc' = "idle"
  /\ UNCHANGED <<locals, ret>>

\* one invoke_model attempt of the expansion call and, when the call ends,
\* the workflow up to the next call or to its return
ExpandAttempt(outcome) ==
  /\ tool = "agent" /\ pc = "expand"
  /\ LET c == safe_bedrock_call(Entered(call), outcome)
         r == expand_requirement_agent(c, agent_state)
     IN /\ call' = c
        /\ last' = outcome
        /\ calls' = Logged("expand", 0)
        /\ attempts' = Count(attempts)
        /\ IF c.status = "running"
             THEN UNCHANGED <<pc, locals, ret, uncaught>>
           ELSE IF r.exc # ""
             THEN Propagate(r.exc)
           ELSE IF ~Truthy(r.ret)
             THEN /\ Return(r.st, None, <<>>)
                  /\ UNCHANGED <<detailed_requirement, tasks, stories, task_num>>
           ELSE /\ detailed_requirement' = r.ret
                /\ agent_state' = update_step(r.st, "breaking_down", 40)
                /\ pc' = "breakdown"
                /\ UNCHANGED <<tasks, stories, task_num, ret, uncaught>>
  /\ UNCHANGED <<tool, basic_requirement, session, shown, runs, elsewhere>>

BreakdownAttempt(outcome) ==
  /\ tool = "agent" /\ pc = "breakdown"
  /\ LET c == safe_bedrock_call(Entered(call), outcome)
         r == breakdown_requirement_agent(c, agent_state)
     IN /\ call' = c
        /\ last' = outcome
        /\ calls' = Logged("breakdown", 0)
        /\ attempts' = Count(attempts)
        /\ IF c.status = "running"
             THEN UNCHANGED <<pc, locals, ret, uncaught>>
           ELSE IF r.exc # ""
             THEN Propagate(r.exc)
           ELSE IF ~Truthy(r.ret)
             THEN /\ Return(r.st, detailed_requirement, <<>>)
                  /\ tasks' = r.ret
                  /\ UNCHANGED <<detailed_requirement, stories, task_num>>
           ELSE /\ tasks' = r.ret
                /\ stories' = <<>>
                /\ task_num' = 1
                /\ agent_state' = r.st
                /\ pc' = "story_enter"
                /\ UNCHANGED <<detailed_requirement, ret, uncaught>>
  /\ UNCHANGED <<tool, basic_requirement, session, shown, runs, elsewhere>>

\* the end of one iteration of the story loop: the next task, or the end of
\* the workflow
LoopNext(st, ss) ==
  IF task_num < Len(Payload(tasks))
    THEN /\ task_num' = task_num + 1
         /\ agent_state' = st
         /\ stories' = ss
         /\ pc' = "story_enter"
         /\ UNCHANGED <<ret, uncaught>>
    ELSE /\ Return(update_step(st, "completed", 100), detailed_requirement, ss)
         /\ stories' = ss
         /\ UNCHANGED task_num

\* create_jira_story_agent for task task_num, up to its safe_bedrock_call
StoryEnter ==
  /\ tool = "agent" /\ pc = "story_enter"
  /\ LET total == Len(Payload(tasks))
         st == update_step(agent_state, "creating_stories",
                           story_progress(task_num, total))
     IN IF Sliceable(Payload(tasks)[task_num])
          THEN /\ agent_state' = st
               /\ pc' = "story"
               /\ UNCHANGED <<stories, task_num, ret, uncaught>>
          ELSE LoopNext(st, stories)
  /\ UNCHANGED <<tool, basic_requirement, session, shown, runs,
                 detailed_requirement, tasks, monitors, elsewhere>>

\* StoryAttempt putting the new story at the head of the list
StoryAttempt_prepends(outcome) ==
  /\ tool = "agent" /\ pc = "story"
  /\ LET c == safe_bedrock_call(Entered(call), outcome)
         r == create_jira_story_agent(c, agent_state)
     IN /\ call' = c
        /\ last' = outcome
        /\ calls' = Logged("story", task_num)
        /\ attempts' = Count(attempts)
        /\ IF c.status = "running"
             THEN UNCHANGED <<pc, locals, ret, uncaught>>
           ELSE IF r.exc # ""
             THEN Propagate(r.exc)
           ELSE /\ LoopNext(r.st,
                            IF Truthy(r.ret) THEN <<r.ret>> \o stories
                            ELSE stories)
                /\ UNCHANGED <<detailed_requirement, tasks>>
  /\ UNCHANGED <<tool, basic_requirement, session, shown, runs, elsewhere>>

StoryAttempt(outcome) ==
  /\ tool = "agent" /\ pc = "story"
  /\ LET c == safe_bedrock_call(Entered(call), outcome)
         r == create_jira_story_agent(c, agent_state)
     IN /\ call' = c
        /\ last' = outcome
        /\ calls' = Logged("story", task_num)
        /\ attempts' = Count(attempts)
        /\ IF c.status = "running"
             THEN UNCHANGED <<pc, locals, ret, uncaught>>
           ELSE IF r.exc # ""
             THEN Propagate(r.exc)
           ELSE /\ LoopNext(r.st,
                            IF Truthy(r.ret) THEN Append(stories, r.ret)
                            ELSE stories)
                /\ UNCHANGED <<detailed_requirement, tasks>>
  /\ UNCHANGED <<tool, basic_requirement, session, shown, runs, elsewhere>>

\* StoreResults leaving workflow_running set
StoreResults_keeps_running ==
  /\ tool = "agent" /\ pc = "returned"
  /\ session' = [agent_state |-> ret.agent_state,
                 detailed_requirement |-> ret.detailed_requirement,
                 stories |-> ret.stories,
                 workflow_running |-> TRUE]
  /\ pc' = "rerun"
  /\ agent_state' = NoAgentState
  /\ detailed_requirement' = None
  /\ tasks' = None
  /\ stories' = <<>>
  /\ task_num' = 0
  /\ call' = NoCall
  /\ last' = NoOutcome
  /\ calls' = <<>>
  /\ attempts' = Recount(attempts)
  /\ ret' = NoRet
  /\ UNCHANGED <<tool, basic_requirement, uncaught, shown, runs, elsewhere>>

\* main after run_agent_workflow returned: the session is updated and
\* st.rerun() ends the script run
StoreResults ==
  /\ tool = "agent" /\ pc = "returned"
  /\ session' = [agent_state |-> ret.agent_state,
                 detailed_requirement |-> ret.detailed_requirement,
                 stories |-> ret.stories,
                 workflow_running |-> FALSE]
  /\ pc' = "rerun"
  /\ agent_state' = NoAgentState
  /\ detailed_requirement' = None
  /\ tasks' = None
  /\ stories' = <<>>
  /\ task_num' = 0
  /\ call' = NoCall
  /\ last' = NoOutcome
  /\ calls' = <<>>
  /\ attempts' = Recount(attempts)
  /\ ret' = NoRet
  /\ UNCHANGED <<tool, basic_requirement, uncaught, shown, runs, elsewhere>>

\* a click on "Clear All", which is rendered after the stories are displayed
ClickClear ==
  /\ tool = "agent" /\ pc = "idle"
  /\ Truthy(Arr(session.stories))
  /\ uncaught = ""
  /\ session' = AgentSession0
  /\ pc' = "rerun"
  /\ shown' = AgentStatus(session)
  /\ UNCHANGED <<tool, basic_requirement, uncaught, runs, locals, monitors,
                 ret, elsewhere>>

NextAgent ==
  \/ \E text \in RequirementTexts : EditRequirement(text)
  \/ ClickStart
  \/ StartWorkflow
  \/ Display
  \/ \E o \in Outcomes(ExpandTexts) : ExpandAttempt(o)
  \/ \E o \in Outcomes(BreakdownTexts) : BreakdownAttempt(o)
  \/ StoryEnter
  \/ \E o \in Outcomes(StoryTexts) : StoryAttempt(o)
  \/ StoreResults
  \/ ClickClear

SpecAgent == InitAgent /\ [][NextAgent]_vars

\* What the script does by itself once a run has started: Streamlit runs the
\* script to its end or to st.rerun(), and starts the run st.rerun() asked for;
\* every invoke_model attempt returns or raises.
ScriptStep ==
  \/ StartWorkflow
  \/ Display
  \/ \E o \in Outcomes(ExpandTexts) : ExpandAttempt(o)
  \/ \E o \in Outcomes(BreakdownTexts) : BreakdownAttempt(o)
  \/ StoryEnter
  \/ \E o \in Outcomes(StoryTexts) : StoryAttempt(o)
  \/ StoreResults

FairSpecAgent == SpecAgent /\ WF_vars(ScriptStep)

\* One workflow run on its own: the script run that follows a click on the
\* start button of a fresh page, with the invoke_model attempts counted.
InitWorkflow ==
  /\ tool = "agent"
  /\ pc = "rerun"
  /\ basic_requirement \in RequirementTexts \ {<<>>}
  /\ widgets = NoWidgets
  /\ session = [AgentSession0 EXCEPT !.workflow_running = TRUE]
  /\ uncaught = ""
  /\ shown = {}
  /\ script = NoScript
  /\ agent_state = NoAgentState
  /\ detailed_requirement = None
  /\ tasks = None
  /\ stories = <<>>
  /\ task_num = 0
  /\ call = NoCall
  /\ last = NoOutcome
  /\ calls = <<>>
  /\ attempts = 0
  /\ ret = NoRet
  /\ runs = 0
  /\ ParseIdle

SpecWorkflow == InitWorkflow /\ [][ScriptStep]_vars /\ WF_vars(ScriptStep)

(***************************************************************************)
(* jira.py: main.  A click on "Break Down into Tasks" is a script run with  *)
(* one model call for the breakdown and one per task; the other clicks are  *)
(* script runs with at most one model call.                                 *)
(***************************************************************************)
JiraSession0 == [stories |-> <<>>, detailed_requirement |-> None]

\* main from "Display stories and download options" on: the exception it ends
\* with.  multi_cell(0, 5, None) of create_pdf_report raises
JiraDisplay(s) ==
  IF ~Truthy(Arr(s.stories)) THEN ""
  ELSE IF StoryKeyError(s.stories) THEN "KeyError"
  ELSE IF s.detailed_requirement = None THEN "AttributeError"
  ELSE ""

\* the messages of a function that showed the error err
Errors(err) == IF err = "" THEN {} ELSE {Error(err)}

InitJira ==
  /\ tool = "jira"
  /\ pc = "idle"
  /\ basic_requirement = <<>>
  /\ widgets = NoWidgets
  /\ session = JiraSession0
  /\ uncaught = ""
  /\ shown = {}
  /\ script = NoScript
  /\ LocalsInit
  /\ ParseIdle

\* the end of a script run of jira.py: the exception exc, or the display
JiraEnd(exc, s) ==
  /\ pc' = "idle"
  /\ uncaught' = (IF exc # "" THEN exc ELSE JiraDisplay(s))

\* the user edits the text area; the script run that follows only displays
JiraEditRequirement(text) ==
  /\ tool = "jira" /\ pc = "idle"
  /\ text # basic_requirement
  /\ basic_requirement' = text
  /\ shown' = {}
  /\ calls' = <<>>
  /\ last' = NoOutcome
  /\ JiraEnd("", session)
  /\ UNCHANGED <<tool, session, runs, locals, call, attempts, ret, elsewhere>>

\* "Expand Requirement" without the test of basic_requirement
ClickExpand_unchecked(outcome) ==
  /\ tool = "jira" /\ pc = "idle"
  /\ LET r == expand_requirement(outcome)
         s == IF r.exc = "" /\ Truthy(r.ret)
                THEN [session EXCEPT !.detailed_requirement = r.ret]
              ELSE session
     IN /\ session' = s
        /\ last' = outcome
        /\ calls' = <<<<"expand", 0>>>>
        /\ shown' = Errors(r.err) \cup
             (IF r.exc = "" /\ Truthy(r.ret)
                THEN {Message("success",
                              "Requirement expanded successfully!", "")}
              ELSE {})
        /\ JiraEnd(r.exc, s)
  /\ UNCHANGED <<tool, basic_requirement, runs, locals, call, attempts, ret, elsewhere>>

\* a click on "Expand Requirement"
ClickExpand(outcome) ==
  /\ tool = "jira" /\ pc = "idle"
  /\ IF Truthy(Str(basic_requirement))
       THEN LET r == expand_requirement(outcome)
                s == IF r.exc = "" /\ Truthy(r.ret)
                       THEN [session EXCEPT !.detailed_requirement = r.ret]
                     ELSE session
            IN /\ session' = s
               /\ last' = outcome
               /\ calls' = <<<<"expand", 0>>>>
               /\ shown' = Errors(r.err) \cup
                    (IF r.exc = "" /\ Truthy(r.ret)
                       THEN {Message("success",
                                     "Requirement expanded successfully!", "")}
                     ELSE {})
               /\ JiraEnd(r.exc, s)
       ELSE /\ outcome = Returns(<<>>)
            /\ shown' = {}
            /\ calls' = <<>>
            /\ last' = NoOutcome
            /\ JiraEnd("", session)
            /\ UNCHANGED session
  /\ UNCHANGED <<tool, basic_requirement, runs, locals, call, attempts, ret, elsewhere>>

\* "Break Down into Tasks" starting from an empty stories list
ClickBreakDown_replaces(outcome) ==
  /\ tool = "jira" /\ pc = "idle"
  /\ Truthy(session.detailed_requirement)
  /\ Len(session.stories) < MaxStories
  /\ LET r == breakdown_requirement(outcome)
     IN /\ last' = outcome
        /\ calls' = <<<<"breakdown", 0>>>>
        /\ IF r.exc = "" /\ Truthy(r.ret)
             THEN /\ tasks' = r.ret
                  /\ task_num' = 1
                  /\ pc' = "jira_story"
                  /\ shown' = {Message("success", "Requirement broken down into ",
                                       "tasks")}
                  /\ uncaught' = ""
                  /\ session' = [session EXCEPT !.stories = <<>>]
             ELSE /\ shown' = Errors(r.err)
                  /\ JiraEnd(r.exc, session)
                  /\ UNCHANGED <<tasks, task_num, session>>
  /\ UNCHANGED <<tool, basic_requirement, runs, agent_state,
                 detailed_requirement, stories, call, attempts, ret, elsewhere>>

\* a click on "Break Down into Tasks", rendered when the session holds a
\* detailed requirement: the script run up to the first create_jira_story
ClickBreakDown(outcome) ==
  /\ tool = "jira" /\ pc = "idle"
  /\ Truthy(session.detailed_requirement)
  /\ Len(session.stories) < MaxStories
  /\ LET r == breakdown_requirement(outcome)
     IN /\ last' = outcome
        /\ calls' = <<<<"breakdown", 0>>>>
        /\ IF r.exc = "" /\ Truthy(r.ret)
             THEN /\ tasks' = r.ret
                  /\ task_num' = 1
                  /\ pc' = "jira_story"
                  /\ shown' = {Message("success", "Requirement broken down into ",
                                       "tasks")}
                  /\ uncaught' = ""
             ELSE /\ shown' = Errors(r.err)
                  /\ JiraEnd(r.exc, session)
                  /\ UNCHANGED <<tasks, task_num>>
  /\ UNCHANGED <<tool, basic_requirement, session, runs, agent_state,
                 detailed_requirement, stories, call, attempts, ret, elsewhere>>

\* create_jira_story for task task_num, the append, and the next task or the
\* rest of the script run
JiraStory(outcome) ==
  /\ tool = "jira" /\ pc = "jira_story"
  /\ LET r == create_jira_story(outcome)
         s == IF r.exc = "" /\ Truthy(r.ret)
                THEN [session EXCEPT !.stories = Append(@, r.ret)]
              ELSE session
     IN /\ session' = s
        /\ last' = outcome
        /\ calls' = Append(calls, <<"story", task_num>>)
        /\ shown' = shown \cup Errors(r.err)
        /\ IF r.exc = "" /\ task_num < Len(Payload(tasks))
             THEN /\ task_num' = task_num + 1
                  /\ UNCHANGED <<pc, uncaught, tasks>>
             ELSE /\ JiraEnd(r.exc, s)
                  /\ tasks' = None
                  /\ task_num' = 0
  /\ UNCHANGED <<tool, basic_requirement, runs, agent_state,
                 detailed_requirement, stories, call, attempts, ret, elsewhere>>

\* "Clear All" leaving the stories in the session
JiraClickClear_keeps_stories ==
  /\ tool = "jira" /\ pc = "idle"
  /\ Truthy(Arr(session.stories))
  /\ uncaught = ""
  /\ session' = [session EXCEPT !.detailed_requirement = None]
  /\ shown' = {}
  /\ calls' = <<>>
  /\ last' = NoOutcome
  /\ JiraEnd("", [session EXCEPT !.detailed_requirement = None])
  /\ UNCHANGED <<tool, basic_requirement, runs, locals, call, attempts, ret, elsewhere>>

\* a click on "Clear All", which is rendered after the stories are displayed:
\* the session is reset, and the script run st.rerun() starts displays nothing
JiraClickClear ==
  /\ tool = "jira" /\ pc = "idle"
  /\ Truthy(Arr(session.stories))
  /\ uncaught = ""
  /\ session' = JiraSession0
  /\ shown' = {}
  /\ calls' = <<>>
  /\ last' = NoOutcome
  /\ JiraEnd("", JiraSession0)
  /\ UNCHANGED <<tool, basic_requirement, runs, locals, call, attempts, ret, elsewhere>>

NextJira ==
  \/ \E text \in RequirementTexts : JiraEditRequirement(text)
  \/ \E o \in Outcomes(ExpandTexts) : ClickExpand(o)
  \/ \E o \in Outcomes(BreakdownTexts) : ClickBreakDown(o)
  \/ \E o \in Outcomes(StoryTexts) : JiraStory(o)
  \/ JiraClickClear

SpecJira == InitJira /\ [][NextJira]_vars

(***************************************************************************)
(* diagram.py: clean_mermaid_code, on ASCII text.  \s and str.strip() take  *)
(* the blank, tab, newline, carriage return and form feed; \w takes the     *)
(* letters, the digits and the underscore.                                  *)
(***************************************************************************)
Space == {" ", "\t", "\n", "\r", "\f"}
WordChars ==
  {"a", "b", "c", "d", "e", "f", "g", "h", "i", "j", "k", "l", "m",
   "n", "o", "p", "q", "r", "s", "t", "u", "v", "w", "x", "y", "z",
   "A", "B", "C", "D", "E", "F", "G", "H", "I", "J", "K", "L", "M",
   "N", "O", "P", "Q", "R", "S", "T", "U", "V", "W", "X", "Y", "Z",
   "0", "1", "2", "3", "4", "5", "6", "7", "8", "9", "_"}

\* the backtick, which a string of this notation cannot hold
Backtick == "backtick"
Fence == <<Backtick, Backtick, Backtick>>
FenceMermaid == Fence \o <<"m", "e", "r", "m", "a", "i", "d">>
stateDiagram == <<"s", "t", "a", "t", "e", "D", "i", "a", "g", "r", "a", "m">>
classDiagram == <<"c", "l", "a", "s", "s", "D", "i", "a", "g", "r", "a", "m">>
sequenceDiagram ==
  <<"s", "e", "q", "u", "e", "n", "c", "e", "D", "i", "a", "g", "r", "a", "m">>
erDiagram == <<"e", "r", "D", "i", "a", "g", "r", "a", "m">>

\* the dict diagram_types, in its order
diagram_types ==
  << <<stateDiagram, stateDiagram \o <<"-", "v", "2">> >>,
     <<classDiagram, classDiagram>>,
     <<sequenceDiagram, sequenceDiagram>>,
     <<erDiagram, erDiagram>> >>

\* s[i:].startswith(w), i 1-based
StartsWith(s, i, w) ==
  /\ i >= 1
  /\ i + Len(w) - 1 <= Len(s)
  /\ SubSeq(s, i, i + Len(w) - 1) = w

\* w in s
Contains(s, w) == \E i \in 1..(Len(s) + 1) : StartsWith(s, i, w)

\* the first position from i on that holds no whitespace
RECURSIVE SpanSpace(_, _)
SpanSpace(s, i) ==
  IF i <= Len(s) /\ s[i] \in Space THEN SpanSpace(s, i + 1) ELSE i

RECURSIVE LStrip(_)
LStrip(s) == IF s # <<>> /\ Head(s) \in Space THEN LStrip(Tail(s)) ELSE s

RECURSIVE RStrip(_)
RStrip(s) ==
  IF s # <<>> /\ s[Len(s)] \in Space THEN RStrip(SubSeq(s, 1, Len(s) - 1))
  ELSE s

Strip(s) == RStrip(LStrip(s))

\* where a match of FENCEmermaid\s*|\s*FENCE that starts at i ends (the
\* position after it), 0 when none starts there; FENCE is three backticks
FenceMatch(s, i) ==
  IF StartsWith(s, i, FenceMermaid) THEN SpanSpace(s, i + Len(FenceMermaid))
  ELSE IF StartsWith(s, SpanSpace(s, i), Fence) THEN SpanSpace(s, i) + Len(Fence)
  ELSE 0

\* re.sub(r'FENCEmermaid\s*|\s*FENCE', '', s) from position i on
RECURSIVE RemoveFences(_, _)
RemoveFences(s, i) ==
  IF i > Len(s) THEN <<>>
  ELSE IF FenceMatch(s, i) # 0 THEN RemoveFences(s, FenceMatch(s, i))
  ELSE <<s[i]>> \o RemoveFences(s, i + 1)

\* s.replace('\r\n', '\n').replace('\r', '\n')
RECURSIVE LineEndings(_)
LineEndings(s) ==
  IF s = <<>> THEN <<>>
  ELSE IF StartsWith(s, 1, <<"\r", "\n">>)
    THEN <<"\n">> \o LineEndings(SubSeq(s, 3, Len(s)))
  ELSE IF Head(s) = "\r" THEN <<"\n">> \o LineEndings(Tail(s))
  ELSE <<Head(s)>> \o LineEndings(Tail(s))

\* s.split('\n')
RECURSIVE Split(_)
Split(s) ==
  IF Find(s, "\n") = -1 THEN <<s>>
  ELSE <<SubSeq(s, 1, Find(s, "\n"))>>
         \o Split(SubSeq(s, Find(s, "\n") + 2, Len(s)))

\* '\n'.join(lines)
RECURSIVE Join(_)
Join(lines) ==
  IF lines = <<>> THEN <<>>
  ELSE IF Len(lines) = 1 THEN lines[1]
  ELSE lines[1] \o <<"\n">> \o Join(Tail(lines))

\* the first diagram type, from k on, whose old name the first line holds
RECURSIVE DeclaredType(_, _)
DeclaredType(first_line, k) ==
  IF k > Len(diagram_types) THEN 0
  ELSE IF Contains(first_line, diagram_types[k][1]) THEN k
  ELSE DeclaredType(first_line, k + 1)

\* "Check and fix diagram type declarations"
FixDeclaration(s) ==
  LET first_line == IF s # <<>> THEN Split(s)[1] ELSE <<>>
      k == DeclaredType(first_line, 1)
  IN IF k = 0 THEN s
     ELSE diagram_types[k][2] \o SubSeq(s, Len(first_line) + 1, Len(s))

\* re.sub(r'[^\w\s\{\}\+\-\#\(\)\:\*\|\>\<\.\-\~]', '', line)
Kept ==
  WordChars \cup Space
    \cup {"{", "}", "+", "-", "#", "(", ")", ":", "*", "|", ">", "<", ".", "~"}
KeepChars(line) == SelectSeq(line, LAMBDA ch : ch \in Kept)

\* a match of (\w)\s*(--[>\*o\|]?)\s*(\w) that starts at i: its arrow, the
\* position of its last character and the position after it; end 0 when none
\* starts there
ArrowMatch(line, i) ==
  LET j == SpanSpace(line, i + 1)
      k == j + 2
      m1 == SpanSpace(line, k + 1)
      m0 == SpanSpace(line, k)
      none == [end |-> 0, arrow |-> <<>>, word |-> 0]
  IN IF ~(i <= Len(line) /\ line[i] \in WordChars /\ StartsWith(line, j, <<"-", "-">>))
       THEN none
     ELSE IF /\ k <= Len(line) /\ line[k] \in {">", "*", "o", "|"}
             /\ m1 <= Len(line) /\ line[m1] \in WordChars
       THEN [end |-> m1 + 1, arrow |-> <<"-", "-", line[k]>>, word |-> m1]
     ELSE IF m0 <= Len(line) /\ line[m0] \in WordChars
       THEN [end |-> m0 + 1, arrow |-> <<"-", "-">>, word |-> m0]
     ELSE none

\* re.sub(r'(\w)\s*(--[>\*o\|]?)\s*(\w)', r'\1 \2 \3', line) from position i
RECURSIVE SpaceArrows(_, _)
SpaceArrows(line, i) ==
  IF i > Len(line) THEN <<>>
  ELSE LET m == ArrowMatch(line, i)
       IN IF m.end # 0
            THEN <<line[i], " ">> \o m.arrow \o <<" ", line[m.word]>>
                   \o SpaceArrows(line, m.end)
          ELSE <<line[i]>> \o SpaceArrows(line, i + 1)

\* "Special cleaning for class diagrams": the cleaned lines
RECURSIVE CleanLines(_)
CleanLines(lines) ==
  IF lines = <<>> THEN <<>>
  ELSE IF Strip(Head(lines)) = <<>> THEN CleanLines(Tail(lines))
  ELSE <<SpaceArrows(KeepChars(Head(lines)), 1)>> \o CleanLines(Tail(lines))

clean_mermaid_code(mermaid_code) ==
  LET unfenced == RemoveFences(Strip(mermaid_code), 1)
      declared == FixDeclaration(LineEndings(unfenced))
  IN Strip(IF Contains(declared, classDiagram)
             THEN Join(CleanLines(Split(declared)))
           ELSE declared)

(***************************************************************************)
(* diagram.py: get_claude_response and main.                                *)
(***************************************************************************)
\* get_claude_response wraps whatever its try block raises
Wrapped == "Exception"

get_claude_response(outcome) ==
  IF outcome.raised THEN [ret |-> <<>>, exc |-> Wrapped]
  ELSE [ret |-> clean_mermaid_code(outcome.text), exc |-> ""]

DiagramTypeOptions ==
  {"State Diagram", "Class Diagram", "Sequence Diagram", "ER Diagram"}

\* Texts the model answers the diagram prompt with: empty, a bare word, a
\* fenced state diagram, a class diagram, and backticks around a fence
DiagramTexts ==
  {<<>>, <<"x">>,
   FenceMermaid \o <<"\n">> \o stateDiagram \o <<"\n", "x", "\n">> \o Fence,
   classDiagram \o <<"\n", "A", "-", "-", "B">>,
   <<Backtick, Backtick, " ">> \o Fence \o <<Backtick>>}

\* 'mermaid_code' not in st.session_state; a key that is present holds a str,
\* the diagram type as the one option selected
Absent == <<"absent", <<>>>>
DiagramSession0 == [mermaid_code |-> Absent, diagram_type |-> Absent]

DiagramWidgets ==
  [requirements : RequirementTexts, diagram_type : DiagramTypeOptions]

\* main up to the generate button: the message of the settings column
DiagramSettings(w) ==
  IF w.diagram_type = "ER Diagram"
    THEN {Message("info",
                  "ER diagrams may require scrolling to view all relationships",
                  "")}
  ELSE {}

\* main's try block without its except clause
generate_diagram_no_except(s, w, outcome) ==
  LET r == get_claude_response(outcome)
  IN IF r.exc = ""
       THEN [session |-> [mermaid_code |-> Str(r.ret),
                          diagram_type |-> Str(<<w.diagram_type>>)],
             shown |-> {Message("success", "Diagram generated successfully!", "")},
             exc |-> ""]
     ELSE [session |-> s, shown |-> {}, exc |-> r.exc]

\* generate_diagram dropping the diagram of the session when the call fails
generate_diagram_clears(s, w, outcome) ==
  LET r == get_claude_response(outcome)
  IN IF r.exc = ""
       THEN [session |-> [mermaid_code |-> Str(r.ret),
                          diagram_type |-> Str(<<w.diagram_type>>)],
             shown |-> {Message("success", "Diagram generated successfully!", "")},
             exc |-> ""]
     ELSE [session |-> DiagramSession0,
           shown |-> {Message("error", "An error occurred: ",
                              "Error getting response from Claude: "),
                      Message("info",
                              "If you see a syntax error, try regenerating the diagram or adjusting your requirements.",
                              "")},
           exc |-> ""]

\* main, the try ... except of the generate button
generate_diagram(s, w, outcome) ==
  LET r == get_claude_response(outcome)
  IN IF r.exc = ""
       THEN [session |-> [mermaid_code |-> Str(r.ret),
                          diagram_type |-> Str(<<w.diagram_type>>)],
             shown |-> {Message("success", "Diagram generated successfully!", "")},
             exc |-> ""]
     ELSE [session |-> s,
           shown |-> {Message("error", "An error occurred: ",
                              "Error getting response from Claude: "),
                      Message("info",
                              "If you see a syntax error, try regenerating the diagram or adjusting your requirements.",
                              "")},
           exc |-> ""]

InitDiagram ==
  /\ tool = "diagram"
  /\ pc = "idle"
  /\ basic_requirement = <<>>
  /\ widgets = [requirements |-> <<>>, diagram_type |-> "State Diagram"]
  /\ session = DiagramSession0
  /\ uncaught = ""
  /\ shown = {}
  /\ script = NoScript
  /\ LocalsInit
  /\ ParseIdle

\* the user edits the requirements or selects a diagram type; the script run
\* that follows only displays
DiagramEdit(w) ==
  /\ tool = "diagram" /\ pc = "idle"
  /\ w # widgets
  /\ widgets' = w
  /\ shown' = DiagramSettings(w)
  /\ uncaught' = ""
  /\ last' = NoOutcome
  /\ UNCHANGED <<tool, pc, basic_requirement, session, runs, locals, call, attempts,
                 calls, ret, script, parsing>>

\* a click on "Generate Diagram"
ClickGenerate(outcome) ==
  /\ tool = "diagram" /\ pc = "idle"
  /\ IF ~Truthy(Str(widgets.requirements))
       THEN /\ outcome = Returns(<<>>)
            /\ shown' = DiagramSettings(widgets) \cup
                 {Message("warning", "Please enter requirements first.", "")}
            /\ uncaught' = ""
            /\ last' = NoOutcome
            /\ UNCHANGED session
       ELSE LET g == generate_diagram(session, widgets, outcome)
            IN /\ session' = g.session
               /\ shown' = DiagramSettings(widgets) \cup g.shown
               /\ uncaught' = g.exc
               /\ last' = outcome
  /\ UNCHANGED <<tool, pc, basic_requirement, widgets, runs, locals, call, attempts,
                 calls, ret, script, parsing>>

NextDiagram ==
  \/ \E w \in DiagramWidgets : DiagramEdit(w)
  \/ \E o \in Outcomes(DiagramTexts) : ClickGenerate(o)

SpecDiagram == InitDiagram /\ [][NextDiagram]_vars

(***************************************************************************)
(* generate-enh-req.py.  Every script run of main processes the uploaded    *)
(* files again; a run is one step per API call: put_object,                 *)
(* start_transcription_job, get_transcription_job, the download of the      *)
(* transcript, delete_transcription_job, invoke_model.                      *)
(***************************************************************************)
InputMethods ==
  {"Type Text", "Upload Document", "Upload Audio File", "Upload Document + Audio"}

\* an uploaded file: its extension, whether its content can be read as text,
\* and that text
NoFile == [ext |-> "", readable |-> FALSE, text |-> <<>>]
File(ext, readable, text) == [ext |-> ext, readable |-> readable, text |-> text]
DocumentFiles ==
  {NoFile, File("txt", TRUE, <<"d">>), File("txt", TRUE, <<>>),
   File("docx", FALSE, <<>>)}
AudioFiles == {NoFile, File("mp3", FALSE, <<>>)}

EnhWidgets ==
  [input_method : InputMethods, user_input : RequirementTexts,
   document : DocumentFiles, audio : AudioFiles]

\* what an S3 or Transcribe call does, and the job statuses a poll reads
CallOutcomes == Outcomes({<<>>})
JobStatuses == {<<"QUEUED">>, <<"IN_PROGRESS">>, <<"COMPLETED">>, <<"FAILED">>}
TranscriptTexts == {<<>>, <<"t">>}

extract_text_from_file(file) ==
  IF file.ext \in {"txt", "md", "rtf"}
    THEN IF file.readable THEN [ret |-> Str(file.text), err |-> ""]
         ELSE [ret |-> None, err |-> "Error extracting text from file: "]
  ELSE IF file.ext = "docx"
    THEN IF file.readable THEN [ret |-> Str(file.text), err |-> ""]
         ELSE [ret |-> None, err |-> "Error extracting text from file: "]
  ELSE IF file.ext = "doc"
    THEN [ret |-> None,
          err |-> "DOC files are not directly supported. Please convert to DOCX or TXT format."]
  ELSE [ret |-> None, err |-> "Unsupported file format: "]

\* upload_to_s3 without its except clause
upload_to_s3_no_except(outcome) ==
  IF outcome.raised THEN [ret |-> FALSE, err |-> "", exc |-> outcome.exc]
  ELSE [ret |-> TRUE, err |-> "", exc |-> ""]

upload_to_s3(outcome) ==
  IF outcome.raised
    THEN [ret |-> FALSE, err |-> "Error uploading to S3: ", exc |-> ""]
  ELSE [ret |-> TRUE, err |-> "", exc |-> ""]

\* the text generate_requirement_prompt returns when invoke_model raises
GenerationError(exc) == <<"Error generating requirement: ", exc>>

generate_requirement_prompt(outcome) ==
  IF outcome.raised THEN [ret |-> Str(GenerationError(outcome.exc)), exc |-> ""]
  ELSE [ret |-> Str(outcome.text), exc |-> ""]

\* the locals of main at the start of a script run in which button reads True
\* ("" when none does), and what the run has done: the job of
\* transcribe_audio, the status its polling loop read last, the value it
\* returned, the <<kind, text>> given to upload_to_s3 and the elements
\* rendered by the generate block
NotReturned == <<"unset", <<>>>>
Script(button) ==
  [button |-> button, processed_input |-> Str(<<>>),
   document_content |-> Str(<<>>), audio_content |-> Str(<<>>),
   transcript |-> None, job |-> "none", status |-> "",
   returned |-> NotReturned, uploads |-> <<>>,
   generated |-> None, rendered |-> {}]

InitEnhReq ==
  /\ tool = "enhreq"
  /\ pc = "idle"
  /\ basic_requirement = <<>>
  /\ widgets = [input_method |-> "Type Text", user_input |-> <<>>,
                document |-> NoFile, audio |-> NoFile]
  /\ session = <<>>
  /\ uncaught = ""
  /\ shown = {}
  /\ script = Script("")
  /\ LocalsInit
  /\ ParseIdle

EnhFrame ==
  UNCHANGED <<tool, basic_requirement, session, runs, locals, call, attempts, calls,
              ret, parsing>>

\* "Combine document and audio content"
Combine(sc) ==
  IF Truthy(sc.document_content) /\ Truthy(sc.audio_content)
    THEN [processed_input |->
            Str(<<"DOCUMENT CONTENT:", "\n">> \o Payload(sc.document_content)
                  \o <<"\n", "\n", "AUDIO TRANSCRIPT:", "\n">>
                  \o Payload(sc.audio_content)),
          shown |-> {Message("success",
                             "Both document and audio processed successfully!",
                             "")}]
  ELSE IF Truthy(sc.document_content)
    THEN [processed_input |-> sc.document_content,
          shown |-> {Message("info", "Using document content only", "")}]
  ELSE IF Truthy(sc.audio_content)
    THEN [processed_input |-> sc.audio_content,
          shown |-> {Message("info", "Using audio content only", "")}]
  ELSE [processed_input |-> sc.processed_input, shown |-> {}]

\* the input handling is done: main goes on to the generate button
ToButtons(input_method, sc, msgs) ==
  /\ pc' = "buttons"
  /\ IF input_method = "Upload Document + Audio"
       THEN /\ script' = [sc EXCEPT !.processed_input = Combine(sc).processed_input]
            /\ shown' = msgs \cup Combine(sc).shown
       ELSE /\ script' = sc
            /\ shown' = msgs

\* an exception nothing in main catches ends the script run
Uncaught(exc, sc, msgs) ==
  /\ pc' = "idle"
  /\ uncaught' = exc
  /\ script' = sc
  /\ shown' = msgs

\* a script run starts: main up to its first API call
Start(w, button) ==
  /\ widgets' = w
  /\ uncaught' = ""
  /\ last' = NoOutcome
  /\ IF w.input_method = "Type Text"
       THEN ToButtons(w.input_method,
                      [Script(button) EXCEPT !.processed_input = Str(w.user_input)],
                      {})
     ELSE IF /\ w.input_method \in {"Upload Document", "Upload Document + Audio"}
             /\ w.document # NoFile
       THEN pc' = "document" /\ script' = Script(button) /\ shown' = {}
     ELSE IF /\ w.input_method \in {"Upload Audio File", "Upload Document + Audio"}
             /\ w.audio # NoFile
       THEN pc' = "audio" /\ script' = Script(button) /\ shown' = {}
     ELSE ToButtons(w.input_method, Script(button), {})
  /\ EnhFrame

\* the user changes a widget
EnhEdit(w) ==
  /\ tool = "enhreq" /\ pc = "idle"
  /\ w # widgets
  /\ Start(w, "")

\* the user clicks a button of the page: "Generate Requirement", or a button
\* the last script run rendered in the generate block
EnhClick(button) ==
  /\ tool = "enhreq" /\ pc = "idle"
  /\ button = "generate" \/ button \in script.rendered
  /\ Start(widgets, button)

\* Document using the extracted text whether or not the upload succeeded
Document_keeps_text(outcome) ==
  /\ tool = "enhreq" /\ pc = "document"
  /\ LET combined == widgets.input_method = "Upload Document + Audio"
         x == extract_text_from_file(widgets.document)
         u == upload_to_s3(outcome)
         sc == IF ~Truthy(x.ret) THEN script
               ELSE IF combined
                 THEN [script EXCEPT !.uploads = Append(@, <<"document", x.ret>>),
                                     !.document_content = x.ret]
               ELSE [script EXCEPT !.uploads = Append(@, <<"document", x.ret>>),
                                   !.processed_input = x.ret]
         msgs == shown \cup Errors(x.err) \cup
                 (IF ~Truthy(x.ret)
                    THEN IF combined THEN {}
                         ELSE {Error("Failed to extract text from document")}
                  ELSE IF u.ret
                    THEN {Message("success",
                                  IF combined THEN "Document uploaded successfully!"
                                  ELSE "Document uploaded to S3 successfully!",
                                  "")}
                  ELSE Errors(u.err) \cup
                       {Error(IF combined THEN "Failed to upload document"
                              ELSE "Failed to upload document to S3")})
     IN /\ IF Truthy(x.ret) THEN last' = outcome
           ELSE outcome = Returns(<<>>) /\ UNCHANGED last
        /\ IF Truthy(x.ret) /\ u.exc # ""
             THEN Uncaught(u.exc, sc, msgs)
           ELSE IF combined /\ widgets.audio # NoFile
             THEN pc' = "audio" /\ script' = sc /\ shown' = msgs
                  /\ UNCHANGED uncaught
           ELSE ToButtons(widgets.input_method, sc, msgs) /\ UNCHANGED uncaught
  /\ UNCHANGED widgets
  /\ EnhFrame

\* the document: extract_text_from_file and, for a text that is not empty,
\* upload_to_s3
Document(outcome) ==
  /\ tool = "enhreq" /\ pc = "document"
  /\ LET combined == widgets.input_method = "Upload Document + Audio"
         x == extract_text_from_file(widgets.document)
         u == upload_to_s3(outcome)
         sc == IF ~Truthy(x.ret) THEN script
               ELSE IF ~u.ret
                 THEN [script EXCEPT !.uploads = Append(@, <<"document", x.ret>>)]
               ELSE IF combined
                 THEN [script EXCEPT !.uploads = Append(@, <<"document", x.ret>>),
                                     !.document_content = x.ret]
               ELSE [script EXCEPT !.uploads = Append(@, <<"document", x.ret>>),
                                   !.processed_input = x.ret]
         msgs == shown \cup Errors(x.err) \cup
                 (IF ~Truthy(x.ret)
                    THEN IF combined THEN {}
                         ELSE {Error("Failed to extract text from document")}
                  ELSE IF u.ret
                    THEN {Message("success",
                                  IF combined THEN "Document uploaded successfully!"
                                  ELSE "Document uploaded to S3 successfully!",
                                  "")}
                  ELSE Errors(u.err) \cup
                       {Error(IF combined THEN "Failed to upload document"
                              ELSE "Failed to upload document to S3")})
     IN /\ IF Truthy(x.ret) THEN last' = outcome
           ELSE outcome = Returns(<<>>) /\ UNCHANGED last
        /\ IF Truthy(x.ret) /\ u.exc # ""
             THEN Uncaught(u.exc, sc, msgs)
           ELSE IF combined /\ widgets.audio # NoFile
             THEN pc' = "audio" /\ script' = sc /\ shown' = msgs
                  /\ UNCHANGED uncaught
           ELSE ToButtons(widgets.input_method, sc, msgs) /\ UNCHANGED uncaught
  /\ UNCHANGED widgets
  /\ EnhFrame

\* the audio file: upload_to_s3
Audio(outcome) ==
  /\ tool = "enhreq" /\ pc = "audio"
  /\ LET combined == widgets.input_method = "Upload Document + Audio"
         u == upload_to_s3(outcome)
         sc == [script EXCEPT !.uploads = Append(@, <<"audio", Str(widgets.audio.text)>>)]
     IN /\ last' = outcome
        /\ IF u.exc # ""
             THEN Uncaught(u.exc, sc, shown)
           ELSE IF u.ret
             THEN /\ pc' = "start_transcription_job"
                  /\ script' = sc
                  /\ shown' = shown \cup
                       {Message("success",
                                IF combined THEN "Audio uploaded successfully!"
                                ELSE "Audio file uploaded to S3 successfully!",
                                "")}
                  /\ UNCHANGED uncaught
           ELSE /\ ToButtons(widgets.input_method, sc,
                            shown \cup Errors(u.err) \cup
                               (IF combined THEN {}
                                ELSE {Error("Failed to upload audio file to S3")}))
                /\ UNCHANGED uncaught
  /\ UNCHANGED widgets
  /\ EnhFrame

\* transcribe_audio returned transcript: main up to the generate button
Transcribed(transcript, sc, msgs) ==
  LET combined == widgets.input_method = "Upload Document + Audio"
      rs == [sc EXCEPT !.returned = transcript]
  IN IF Truthy(transcript)
       THEN ToButtons(widgets.input_method,
                      IF combined THEN [rs EXCEPT !.audio_content = transcript]
                      ELSE [rs EXCEPT !.processed_input = transcript],
                      msgs \cup {Message("success",
                                         IF combined THEN "Audio transcribed!"
                                         ELSE "Audio transcription completed!",
                                         "")})
     ELSE ToButtons(widgets.input_method, rs,
                    msgs \cup {Error("Failed to transcribe audio")})

\* transcribe_audio's except clause
TranscriptionError(sc) ==
  Transcribed(None, sc, shown \cup {Error("Error in transcription: ")})

\* transcribe_audio: start_transcription_job
StartJob(outcome) ==
  /\ tool = "enhreq" /\ pc = "start_transcription_job"
  /\ last' = outcome
  /\ IF outcome.raised THEN TranscriptionError(script)
     ELSE /\ pc' = "get_transcription_job"
          /\ script' = [script EXCEPT !.job = "started"]
          /\ UNCHANGED shown
  /\ UNCHANGED <<widgets, uncaught>>
  /\ EnhFrame

\* PollJob giving up after one poll
PollJob_once(outcome) ==
  /\ tool = "enhreq" /\ pc = "get_transcription_job"
  /\ last' = outcome
  /\ IF outcome.raised THEN TranscriptionError(script)
     ELSE LET sc == [script EXCEPT !.status = outcome.text[1]]
          IN IF sc.status = "COMPLETED"
               THEN pc' = "get_transcript" /\ script' = sc /\ UNCHANGED shown
             ELSE IF sc.status = "FAILED"
               THEN Transcribed(None, sc,
                                shown \cup {Error("Transcription failed")})
             ELSE Transcribed(None, sc,
                              shown \cup {Error("Transcription failed")})
  /\ UNCHANGED <<widgets, uncaught>>
  /\ EnhFrame

\* transcribe_audio: one iteration of the polling loop and, once the job has
\* failed, the return
PollJob(outcome) ==
  /\ tool = "enhreq" /\ pc = "get_transcription_job"
  /\ last' = outcome
  /\ IF outcome.raised THEN TranscriptionError(script)
     ELSE LET sc == [script EXCEPT !.status = outcome.text[1]]
          IN IF sc.status = "COMPLETED"
               THEN pc' = "get_transcript" /\ script' = sc /\ UNCHANGED shown
             ELSE IF sc.status = "FAILED"
               THEN Transcribed(None, sc,
                                shown \cup {Error("Transcription failed")})
             ELSE script' = sc /\ UNCHANGED <<pc, shown>>
  /\ UNCHANGED <<widgets, uncaught>>
  /\ EnhFrame

\* transcribe_audio: requests.get(transcript_uri) and response.json()
GetTranscript(outcome) ==
  /\ tool = "enhreq" /\ pc = "get_transcript"
  /\ last' = outcome
  /\ IF outcome.raised THEN TranscriptionError(script)
     ELSE /\ pc' = "delete_transcription_job"
          /\ script' = [script EXCEPT !.transcript = Str(outcome.text)]
          /\ UNCHANGED shown
  /\ UNCHANGED <<widgets, uncaught>>
  /\ EnhFrame

\* transcribe_audio: delete_transcription_job and the return of the transcript
DeleteJob(outcome) ==
  /\ tool = "enhreq" /\ pc = "delete_transcription_job"
  /\ last' = outcome
  /\ IF outcome.raised THEN TranscriptionError(script)
     ELSE Transcribed(script.transcript, [script EXCEPT !.job = "deleted"], shown)
  /\ UNCHANGED <<widgets, uncaught>>
  /\ EnhFrame

\* main from the generate button on.  A button reads True only in the script
\* run its click started, so at most one of them does.
Buttons(outcome, saving) ==
  /\ tool = "enhreq" /\ pc = "buttons"
  /\ IF script.button = "generate" /\ Truthy(script.processed_input)
       THEN LET g == generate_requirement_prompt(outcome)
                u == upload_to_s3(saving)
                save == script.button = "save"
            IN /\ last' = outcome
               /\ ~save => saving = Returns(<<>>)
               /\ script' =
                    [script EXCEPT
                       !.generated = g.ret,
                       !.rendered = {"download_text", "download_pdf", "save",
                                     "preview"},
                       !.uploads = IF save THEN Append(@, <<"generated", g.ret>>) ELSE @]
               /\ shown' = shown \cup
                    (IF ~save THEN {}
                     ELSE IF u.ret THEN {Message("success", "Saved to S3: ", "")}
                     ELSE Errors(u.err) \cup {Error("Failed to save to S3")})
               /\ uncaught' = (IF g.exc # "" THEN g.exc
                               ELSE IF save THEN u.exc ELSE "")
       ELSE /\ outcome = Returns(<<>>) /\ saving = Returns(<<>>)
            /\ shown' = shown \cup
                 (IF script.button = "generate"
                    THEN {Message("warning",
                                  "Please provide input using one of the available methods",
                                  "")}
                  ELSE {})
            /\ UNCHANGED <<script, last, uncaught>>
  /\ pc' = "idle"
  /\ UNCHANGED widgets
  /\ EnhFrame

NextEnhReq ==
  \/ \E w \in EnhWidgets : EnhEdit(w)
  \/ \E b \in {"generate", "save", "preview"} : EnhClick(b)
  \/ \E o \in CallOutcomes : Document(o)
  \/ \E o \in CallOutcomes : Audio(o)
  \/ \E o \in CallOutcomes : StartJob(o)
  \/ \E o \in Outcomes(JobStatuses) : PollJob(o)
  \/ \E o \in Outcomes(TranscriptTexts) : GetTranscript(o)
  \/ \E o \in CallOutcomes : DeleteJob(o)
  \/ \E o \in Outcomes(ExpandTexts), s \in CallOutcomes : Buttons(o, s)

SpecEnhReq == InitEnhReq /\ [][NextEnhReq]_vars

\* transcribe_audio runs on once it has been called: each of its steps is
\* taken when it stays possible
TranscribeStep ==
  \/ \E o \in CallOutcomes : StartJob(o)
  \/ \E o \in Outcomes(JobStatuses) : PollJob(o)
  \/ \E o \in Outcomes(TranscriptTexts) : GetTranscript(o)
  \/ \E o \in CallOutcomes : DeleteJob(o)

FairSpecEnhReq == InitEnhReq /\ [][NextEnhReq]_vars /\ WF_vars(TranscribeStep)

(***************************************************************************)
(* The four tools: a session is a session of one of them.                   *)
(***************************************************************************)
Init == InitAgent \/ InitJira \/ InitDiagram \/ InitEnhReq

Next == NextAgent \/ NextJira \/ NextDiagram \/ NextEnhReq

Spec == Init /\ [][Next]_vars


(***************************************************************************)
(* jira-agent.py, jira.py: the exports.  The bytes of the CSV and of the    *)
(* PDF are kept as what they were made from; a ZIP archive is the sequence  *)
(* of its <<name, data>> entries.  The two keys of the JSON export are      *)
(* written as one symbol each.                                              *)
(***************************************************************************)
download_stories_csv(ss) == <<"csv", ss>>

\* create_pdf_report of stories that have the six fields
create_pdf_report(ss, dr) == <<"pdf", dr, ss>>

RECURSIVE Spaces(_)
Spaces(n) == IF n = 0 THEN <<>> ELSE <<" ">> \o Spaces(n - 1)

\* json.dumps(v, indent=2): v at nesting depth level
RECURSIVE DumpsIndent(_, _), IndentItems(_, _), IndentPairs(_, _)
DumpsIndent(v, level) ==
  CASE Tag(v) = "str" -> <<Quote>> \o Payload(v) \o <<Quote>>
    [] Tag(v) = "num" -> Payload(v)
    [] Tag(v) = "arr" ->
         IF Payload(v) = <<>> THEN <<"[", "]">>
         ELSE <<"[", "\n">> \o IndentItems(Payload(v), level + 1)
                \o <<"\n">> \o Spaces(2 * level) \o <<"]">>
    [] Tag(v) = "obj" ->
         IF Payload(v) = <<>> THEN <<"{", "}">>
         ELSE <<"{", "\n">> \o IndentPairs(Payload(v), level + 1)
                \o <<"\n">> \o Spaces(2 * level) \o <<"}">>

IndentItems(items, level) ==
  Spaces(2 * level) \o DumpsIndent(Head(items), level)
    \o (IF Len(items) = 1 THEN <<>>
        ELSE <<",", "\n">> \o IndentItems(Tail(items), level))

IndentPairs(pairs, level) ==
  Spaces(2 * level) \o <<Quote>> \o Head(pairs)[1] \o <<Quote, ":", " ">>
    \o DumpsIndent(Head(pairs)[2], level)
    \o (IF Len(pairs) = 1 THEN <<>>
        ELSE <<",", "\n">> \o IndentPairs(Tail(pairs), level))

\* the dict create_zip_archive gives to json.dumps
ExportObject(ss, dr) ==
  Obj(<< <<<<"detailed_requirement">>, dr>>, <<<<"stories">>, Arr(ss)>> >>)

\* create_zip_archive without its README
create_zip_archive_no_readme(ss, dr, csv_data, pdf_data) ==
  << <<"jira_stories.csv", csv_data>>,
     <<"jira_stories.pdf", pdf_data>>,
     <<"jira_stories.json", DumpsIndent(ExportObject(ss, dr), 0)>> >>

create_zip_archive(ss, dr, csv_data, pdf_data) ==
  << <<"jira_stories.csv", csv_data>>,
     <<"jira_stories.pdf", pdf_data>>,
     <<"jira_stories.json", DumpsIndent(ExportObject(ss, dr), 0)>>,
     <<"README.txt", <<"readme">> >> >>

\* jira-agent.py, main, "Download section": the data of the download buttons
\* (<<>> for a button that is not rendered)
AgentDownloads(s) ==
  LET csv_data == download_stories_csv(s.stories)
      pdf_data == create_pdf_report(s.stories, s.detailed_requirement)
  IN IF Truthy(s.detailed_requirement)
       THEN [csv |-> csv_data, pdf |-> pdf_data,
             zip |-> create_zip_archive(s.stories, s.detailed_requirement,
                                        csv_data, pdf_data)]
     ELSE [csv |-> csv_data, pdf |-> <<>>, zip |-> <<>>]

\* jira.py, main, "Download section"
JiraDownloads(s) ==
  LET csv_data == download_stories_csv(s.stories)
      pdf_data == create_pdf_report(s.stories, s.detailed_requirement)
  IN [csv |-> csv_data, pdf |-> pdf_data,
      zip |-> create_zip_archive(s.stories, s.detailed_requirement,
                                 csv_data, pdf_data)]
(***************************************************************************)
(* The extraction functions on their own: breakdown_requirement and         *)
(* create_jira_story of jira.py, breakdown_requirement_agent and             *)
(* create_jira_story_agent of jira-agent.py, each applied to a model call    *)
(* that returned the text content.                                           *)
(***************************************************************************)
ParseAlphabet == {"[", "]", "{", "}", ",", ":", Quote, " ", "1", "x"}
FreeTexts == UNION {[1..n -> ParseAlphabet] : n \in 0..MaxLen}

\* objects and arrays a response may carry, brackets inside strings included
SampleObjects ==
  {Obj(<<>>), PartialStory, FullStory,
   Obj(<< <<Summary, Str(<<"}", "{">>)>>, <<Labels, Arr(<<>>)>> >>),
   Obj(<< <<Summary, Obj(<< <<Labels, Arr(<<Num(<<"1">>)>>)>> >>)>> >>)}
SampleArrays ==
  {Arr(<<>>), Arr(<<Str(<<"x">>)>>), Arr(<<Num(<<"1">>), Str(<<"x">>)>>),
   Arr(<<Arr(<<Str(<<"x">>)>>), Obj(<<>>)>>), Arr(<<Str(<<"]", "[">>)>>)}
Prefixes == {<<>>, <<"x", " ">>, <<"]", "}", " ">>, <<"{">>, <<"[">>}
Suffixes == {<<>>, <<" ", "x">>, <<"{", "[">>, <<"}">>, <<"]">>}

AffixedTexts ==
  {Content(pre \o Dumps(v, pretty) \o suf, pre, v, suf) :
     pre \in Prefixes, suf \in Suffixes, pretty \in BOOLEAN,
     v \in SampleObjects \cup SampleArrays}

ParseInputs == {Content(t, <<>>, None, <<>>) : t \in FreeTexts} \cup AffixedTexts

Has(text, ch) == \E k \in 1..Len(text) : text[k] = ch

InitParse ==
  /\ tool = "parse"
  /\ pc = "idle"
  /\ basic_requirement = <<>>
  /\ widgets = NoWidgets
  /\ session = AgentSession0
  /\ uncaught = ""
  /\ shown = {}
  /\ script = NoScript
  /\ LocalsInit
  /\ content \in ParseInputs
  /\ extracted = NoExtract
  /\ responses = NoResponses
  /\ logger = NoLogger

ReturnedCall(text) == [NewCall EXCEPT !.status = "returned", !.made = 1, !.text = text]

Extract(fn, value) ==
  /\ tool = "parse"
  /\ extracted.fn # fn
  /\ extracted' = [fn |-> fn, ret |-> value]
  /\ UNCHANGED <<tool, pc, ui, locals, monitors, ret, widgets, script, content,
                 responses, logger>>

ApplyBreakdown ==
  Extract("breakdown_requirement", breakdown_requirement(Returns(content.text)).ret)
ApplyBreakdownAgent ==
  Extract("breakdown_requirement_agent",
          breakdown_requirement_agent(ReturnedCall(content.text), AgentState).ret)
ApplyCreateStory ==
  Extract("create_jira_story", create_jira_story(Returns(content.text)).ret)
ApplyCreateStoryAgent ==
  Extract("create_jira_story_agent",
          create_jira_story_agent(ReturnedCall(content.text), AgentState).ret)

NextParse ==
  \/ ApplyBreakdown
  \/ ApplyBreakdownAgent
  \/ ApplyCreateStory
  \/ ApplyCreateStoryAgent

SpecParse == InitParse /\ [][NextParse]_vars

\* the ways to read text as prefix + J + suffix with J a JSON value of the
\* kind tag, no opening bracket open in prefix and no closing bracket close
\* in suffix: the values J denotes
DenotedBy(text, tag, open, close) ==
  {json_loads(SubSeq(text, a + 1, b)).val :
     <<a, b>> \in {ab \in (0..Len(text)) \X (0..Len(text)) :
                     /\ ab[1] <= ab[2]
                     /\ ~Has(SubSeq(text, 1, ab[1]), open)
                     /\ ~Has(SubSeq(text, ab[2] + 1, Len(text)), close)
                     /\ json_loads(SubSeq(text, ab[1] + 1, ab[2])).ok
                     /\ Tag(json_loads(SubSeq(text, ab[1] + 1, ab[2])).val) = tag}}

\* C9: for a response prefix + J + suffix, J the text of a JSON object,
\* prefix without "{" and suffix without "}", create_jira_story and
\* create_jira_story_agent return the object J denotes; with J the text of a
\* JSON array, prefix without "[" and suffix without "]",
\* breakdown_requirement and breakdown_requirement_agent return the array.
C9_ExtractionReturnsDenoted ==
  /\ extracted.fn \in {"create_jira_story", "create_jira_story_agent"} =>
       /\ (/\ Tag(content.value) = "obj"
           /\ ~Has(content.prefix, "{") /\ ~Has(content.suffix, "}"))
          => extracted.ret = content.value
       /\ Len(content.text) <= MaxLen + 2 =>
            \A v \in DenotedBy(content.text, "obj", "{", "}") : extracted.ret = v
  /\ extracted.fn \in {"breakdown_requirement", "breakdown_requirement_agent"} =>
       /\ (/\ Tag(content.value) = "arr"
           /\ ~Has(content.prefix, "[") /\ ~Has(content.suffix, "]"))
          => extracted.ret = content.value
       /\ Len(content.text) <= MaxLen + 2 =>
            \A v \in DenotedBy(content.text, "arr", "[", "]") : extracted.ret = v
C9_Witness ==
  /\ extracted.fn = "create_jira_story_agent"
  /\ content.value = FullStory
  /\ content.prefix = <<"]", "}", " ">> /\ content.suffix = <<"{", "[">>
  /\ extracted.ret = FullStory


(***************************************************************************)
(* jira-agent.py and jira.py on the same responses: one run_agent_workflow  *)
(* execution, then, on a fresh page of jira.py with the same requirement,   *)
(* "Expand Requirement" followed by "Break Down into Tasks".  Every model   *)
(* call returns; the call for the expansion returns responses.expand, the   *)
(* one for the breakdown responses.breakdown, the one for task i            *)
(* responses.story[i].                                                      *)
(***************************************************************************)
ResponseSets ==
  [expand : ExpandTexts, breakdown : BreakdownTexts,
   story : [1..MaxTasks -> StoryTexts]]

InitPair ==
  /\ tool = "agent"
  /\ pc = "rerun"
  /\ basic_requirement = <<"x">>
  /\ widgets = NoWidgets
  /\ session = [AgentSession0 EXCEPT !.workflow_running = TRUE]
  /\ uncaught = ""
  /\ shown = {}
  /\ script = NoScript
  /\ LocalsInit
  /\ content = NoContent /\ extracted = NoExtract
  /\ responses \in ResponseSets
  /\ logger = NoLogger

\* the page of jira.py is opened with the requirement the workflow ran on:
\* "Session state initialization"
OpenJira ==
  /\ tool = "agent" /\ pc = "returned"
  /\ tool' = "jira"
  /\ pc' = "idle"
  /\ session' = JiraSession0
  /\ shown' = {}
  /\ uncaught' = ""
  /\ agent_state' = NoAgentState
  /\ detailed_requirement' = None
  /\ tasks' = None
  /\ stories' = <<>>
  /\ task_num' = 0
  /\ call' = NoCall
  /\ last' = NoOutcome
  /\ calls' = <<>>
  /\ UNCHANGED <<basic_requirement, runs, attempts, ret, elsewhere>>

PairAgentStep ==
  \/ StartWorkflow
  \/ ExpandAttempt(Returns(responses.expand))
  \/ BreakdownAttempt(Returns(responses.breakdown))
  \/ StoryEnter
  \/ StoryAttempt(Returns(responses.story[task_num]))

PairJiraStep ==
  \/ calls = <<>> /\ ClickExpand(Returns(responses.expand))
  \/ /\ calls # <<>> /\ calls[Len(calls)][1] = "expand"
     /\ ClickBreakDown(Returns(responses.breakdown))
  \/ JiraStory(Returns(responses.story[task_num]))

NextPair == PairAgentStep \/ OpenJira \/ PairJiraStep

SpecPair == InitPair /\ [][NextPair]_vars

(***************************************************************************)
(* logger.py in one process: instances of LLMLogger are constructed, the    *)
(* first by the module itself, and records are logged through them.         *)
(***************************************************************************)
InitLogger ==
  /\ tool = "logger"
  /\ pc = "idle"
  /\ basic_requirement = <<>>
  /\ widgets = NoWidgets
  /\ session = AgentSession0
  /\ uncaught = ""
  /\ shown = {}
  /\ script = NoScript
  /\ LocalsInit
  /\ content = NoContent /\ extracted = NoExtract /\ responses = NoResponses
  /\ logger = NoLogger

LoggerFrame ==
  UNCHANGED <<tool, pc, ui, locals, monitors, ret, widgets, script, content,
              extracted, responses>>

\* LLMLogger(log_file, log_level)
NewLLMLogger(log_file, log_level, outcome) ==
  /\ tool = "logger"
  /\ logger.instances < MaxInstances
  /\ logger' = LLMLogger(logger, log_file, log_level, outcome)
  /\ LoggerFrame

\* a logging method of an instance: log_llm_request, log_llm_response,
\* log_workflow_step and log_info log at INFO, log_llm_error and log_error at
\* ERROR
LogRecord(levelno) ==
  /\ tool = "logger"
  /\ logger.instances >= 1
  /\ logger.records < MaxRecords
  /\ logger' = log(logger, levelno)
  /\ LoggerFrame

NextLogger ==
  \/ \E f \in LogFiles, l \in LogLevels, o \in InitOutcomes : NewLLMLogger(f, l, o)
  \/ \E l \in {INFO, ERROR} : LogRecord(l)

SpecLogger == InitLogger /\ [][NextLogger]_vars
(***************************************************************************)
(* Properties of jira-agent.py.                                            *)
(***************************************************************************)
InWorkflow == tool = "agent" /\ pc \in {"expand", "breakdown", "story_enter", "story", "returned"}
Returned == tool = "agent" /\ pc = "returned"
TaskCount == IF Tag(tasks) = "arr" THEN Len(Payload(tasks)) ELSE 0
LastKind == IF calls = <<>> THEN "" ELSE calls[Len(calls)][1]
CallEnded == call.status \in {"returned", "raised"}

\* C1: the model calls of one run_agent_workflow execution are, in this
\* order, one expansion call, one breakdown call and one story-conversion
\* call per task in task-list order; the breakdown call follows an expansion
\* that returned a non-empty text, the story calls a breakdown that returned
\* a non-empty task list.
C1_CallsInOrder ==
  InWorkflow =>
    /\ \A k \in 1..Len(calls) :
         calls[k] = IF k = 1 THEN <<"expand", 0>>
                    ELSE IF k = 2 THEN <<"breakdown", 0>>
                    ELSE <<"story", k - 2>>
    /\ Len(calls) >= 2 => Truthy(detailed_requirement)
    /\ Len(calls) >= 3 => Truthy(tasks)
    /\ (pc = "returned" /\ Truthy(tasks)) => Len(calls) = 2 + TaskCount

\* C2: one safe_bedrock_call makes at most max_retries invoke_model
\* attempts; an attempt that succeeds ends the call, which returns that
\* attempt's text; a failed attempt before the last is followed by another
\* attempt; after max_retries failed attempts the call raises the last
\* attempt's exception.
C2_RetryContract ==
  InWorkflow =>
    /\ call.made <= max_retries
    /\ (call.made > 0 /\ ~last.raised) =>
         call.status = "returned" /\ call.text = last.text
    /\ (call.made > 0 /\ last.raised /\ call.made < max_retries) =>
         call.status = "running"
    /\ (call.made > 0 /\ last.raised /\ call.made >= max_retries) =>
         call.status = "raised" /\ call.exc = last.exc /\ call.made = max_retries
C2_Witness ==
  /\ Returned /\ call.status = "raised" /\ call.made = max_retries
  /\ ret.agent_state.error.detail = "TimeoutError"

\* C3: when the expansion or the breakdown step fails (every retry raised,
\* the text was empty, or no task list was parsed) the workflow has returned
\* without a further model call, with no story and with an agent state whose
\* current_step is "error" and whose error message is not empty.
C3_StepFailureStops ==
  (/\ InWorkflow
   /\ LastKind \in {"expand", "breakdown"}
   /\ \/ call.status = "raised"
      \/ call.status = "returned" /\ call.text = <<>>
      \/ LastKind = "breakdown" /\ call.status = "returned" /\ tasks = None)
  => /\ pc = "returned"
     /\ ret.stories = <<>>
     /\ ret.agent_state.current_step = "error"
     /\ ret.agent_state.error.msg # ""
C3_Witness ==
  /\ Returned /\ LastKind = "breakdown"
  /\ call.status = "returned" /\ call.text # <<>> /\ tasks = None

\* C4: a task whose conversion fails is abandoned alone: during the story
\* loop the agent state is never the error state, every task is visited and
\* every task the call can be issued for gets its call, and the workflow ends
\* with current_step "completed" and progress 100, whether or not any story
\* was produced.
C4_TaskFailureIsLocal ==
  /\ (tool = "agent" /\ pc \in {"story_enter", "story"}) =>
       agent_state.current_step # "error" /\ agent_state.error = NoError
  /\ (Returned /\ Truthy(tasks)) =>
       /\ task_num = TaskCount
       /\ \A k \in 1..TaskCount :
            Sliceable(Payload(tasks)[k]) =>
              \E j \in 1..Len(calls) : calls[j] = <<"story", k>>
       /\ ret.agent_state.current_step = "completed"
       /\ ret.agent_state.progress = 100
       /\ ret.agent_state.error = NoError
C4_Witness ==
  /\ Returned /\ TaskCount >= 2 /\ ret.stories = <<>>
  /\ \A k \in 1..TaskCount : \E j \in 1..Len(calls) : calls[j] = <<"story", k>>
  /\ call.status = "raised"
  /\ ret.agent_state.current_step = "completed"

\* C5: within one safe_bedrock_call the k-th failed attempt (from 0) that is
\* not the last is followed by a sleep of 2^k seconds, and nothing else
\* sleeps: no sleep follows a success or the last failed attempt, and the
\* sleeps of one call add up to at most 2^(max_retries-1) - 1 seconds.
C5_Backoff ==
  InWorkflow =>
    /\ \A k \in 1..Len(call.slept) : call.slept[k] = 2 ^ (k - 1)
    /\ Len(call.slept) = (IF CallEnded THEN call.made - 1 ELSE call.made)
    /\ Sum(call.slept) <= 2 ^ (max_retries - 1) - 1
C5_Witness ==
  InWorkflow /\ call.status = "raised" /\ call.slept = <<1, 2>>

\* C10: one click on the start button causes exactly one execution of
\* run_agent_workflow: while workflow_running is set the button cannot be
\* clicked, the execution's results are what the session holds when
\* workflow_running is cleared, and every click is followed by a state with
\* workflow_running cleared.
C10_OneRunPerClick ==
  /\ [](tool = "agent" =>
          /\ runs <= 1
          /\ session.workflow_running => ~ENABLED ClickStart)
  /\ [][(tool = "agent" /\ session.workflow_running /\ ~session'.workflow_running)
          => /\ runs' = 1
             /\ pc = "returned"
             /\ session'.agent_state = ret.agent_state
             /\ session'.detailed_requirement = ret.detailed_requirement
             /\ session'.stories = ret.stories]_vars
  /\ ((tool = "agent" /\ session.workflow_running)
        ~> (~session.workflow_running /\ runs = 1))
C10_Witness ==
  /\ tool = "agent" /\ pc = "idle" /\ runs = 1
  /\ ~session.workflow_running
  /\ session.agent_state.current_step = "completed"
  /\ session.stories # <<>>


(***************************************************************************)
(* Properties of the four tools.                                            *)
(***************************************************************************)
\* what a failed model, S3 or Transcribe call raises, as it is or wrapped
ApiExceptions == Exceptions \cup {Wrapped}
ErrorShown == \E m \in shown : m.level = "error"

\* C6: a model-API, S3 or transcription call that raises never ends main's
\* script run with its exception: in jira-agent.py the call is retried, or
\* the step returns with the error state and its message (expansion,
\* breakdown) or the story loop goes on; in jira.py, diagram.py and
\* generate-enh-req.py an error message is shown, or the generated text is
\* the error string, and the script run goes on or has ended normally.
C6_ApiFailuresAreCaught ==
  /\ uncaught \notin ApiExceptions
  /\ last.raised =>
       /\ tool = "agent" =>
            \/ call.status = "running"
            \/ /\ call.status = "raised"
               /\ LastKind \in {"expand", "breakdown"} =>
                    /\ pc = "returned"
                    /\ ret.agent_state.current_step = "error"
                    /\ ret.agent_state.error.msg # ""
                    /\ ret.agent_state.error.detail = last.exc
               /\ LastKind = "story" => pc \in {"story_enter", "story", "returned"}
       /\ tool = "jira" => pc \in {"idle", "jira_story"} /\ ErrorShown
       /\ tool = "diagram" => pc = "idle" /\ ErrorShown
       /\ tool = "enhreq" =>
            \/ ErrorShown
            \/ pc = "idle" /\ script.generated = Str(GenerationError(last.exc))
C6_Witness ==
  /\ tool = "enhreq" /\ pc = "buttons"
  /\ last.raised /\ script.job = "started"
  /\ Error("Error in transcription: ") \in shown
  /\ uncaught = ""

\* the objects a story response of the model denotes, and the texts that
\* denote them
StoryObjects == {Obj(<<>>), PartialStory, FullStory}
Renderings(v) ==
  {Dumps(v, TRUE), Dumps(v, FALSE),
   <<"x", " ">> \o Dumps(v, FALSE) \o <<" ", "x">>}
Denoted(text) ==
  IF \E v \in StoryObjects : text \in Renderings(v)
    THEN CHOOSE v \in StoryObjects : text \in Renderings(v)
  ELSE None
StoriesSoFar == IF tool = "agent" THEN stories ELSE session.stories

\* C7: when a story-conversion response denotes a JSON object that is not
\* empty, that object, with the fields it has and no other, is the last
\* element of the stories list (of run_agent_workflow, of jira.py's session),
\* whether or not it has the six fields; and run_agent_workflow returns the
\* list it built.
C7_StoryAppendedAsParsed ==
  /\ (/\ tool \in {"agent", "jira"}
      /\ LastKind = "story"
      /\ last # NoOutcome /\ ~last.raised
      /\ Truthy(Denoted(last.text)))
     => /\ StoriesSoFar # <<>>
        /\ StoriesSoFar[Len(StoriesSoFar)] = Denoted(last.text)
  /\ Returned => ret.stories = stories
C7_Witness ==
  /\ tool = "agent" /\ pc = "returned" /\ LastKind = "story"
  /\ last = Returns(Dumps(PartialStory, FALSE))
  /\ ret.stories # <<>>
  /\ ret.stories[Len(ret.stories)] = PartialStory

\* C8: every story of the session's stories list has the six fields, and the
\* story display and create_pdf_report never raise KeyError.
C8_StoriesHaveAllFields ==
  tool \in {"agent", "jira"} =>
    /\ \A k \in 1..Len(session.stories) :
         StoryFields \subseteq Keys(session.stories[k])
    /\ uncaught # "KeyError"

(***************************************************************************)
(* Termination, the session of jira.py, the exports.                        *)
(***************************************************************************)
\* C11: when every invoke_model attempt returns or raises, a run of
\* run_agent_workflow returns, and it makes at most max_retries * (2 + n)
\* invoke_model attempts, n being the number of tasks the breakdown step
\* returned (0 when it returned none).
C11_WorkflowTerminates ==
  /\ [](InWorkflow => attempts <= max_retries * (2 + TaskCount))
  /\ ((tool = "agent" /\ pc \in {"expand", "breakdown", "story_enter", "story"})
        ~> Returned)
C11_Witness ==
  /\ Returned /\ TaskCount = 2
  /\ attempts = max_retries * (2 + TaskCount)

\* C12: in jira.py a step changes the session's stories list only by
\* appending the story create_jira_story just returned, or ("Clear All") by
\* emptying it; "Break Down into Tasks" clicked again appends after the
\* stories already there, and "Expand Requirement" leaves the list as it is.
C12_StoriesOnlyAppended ==
  [][tool = "jira" =>
       /\ \/ session'.stories = session.stories
          \/ /\ pc = "jira_story" /\ ~last'.raised
             /\ LastKind' = "story"
             /\ session'.stories =
                  Append(session.stories, create_jira_story(last').ret)
          \/ /\ pc = "idle" /\ calls' = <<>>
             /\ Truthy(Arr(session.stories))
             /\ session' = JiraSession0
       /\ LastKind' \in {"expand", "breakdown"} =>
            session'.stories = session.stories]_vars
C12_Witness ==
  /\ tool = "jira" /\ pc = "idle"
  /\ calls = << <<"breakdown", 0>>, <<"story", 1>> >>
  /\ session.stories = <<PartialStory, FullStory>>

\* a script run of jira-agent.py or jira.py has rendered the download section
ExportsRendered ==
  /\ tool \in {"agent", "jira"} /\ pc = "idle" /\ uncaught = ""
  /\ Truthy(Arr(session.stories))
Exports ==
  IF tool = "agent" THEN AgentDownloads(session) ELSE JiraDownloads(session)

\* C13: the ZIP export has exactly the four entries jira_stories.csv,
\* jira_stories.pdf, jira_stories.json and README.txt; its CSV and PDF entries
\* are the data of the CSV and PDF download buttons of the same script run,
\* and its JSON entry decodes to the session's detailed requirement and its
\* stories, in their order.
C13_ZipHoldsTheExports ==
  ExportsRendered =>
    /\ [k \in 1..Len(Exports.zip) |-> Exports.zip[k][1]] =
         <<"jira_stories.csv", "jira_stories.pdf", "jira_stories.json",
           "README.txt">>
    /\ Exports.zip[1][2] = Exports.csv
    /\ Exports.zip[2][2] = Exports.pdf
    /\ json_loads(Exports.zip[3][2]) =
         ParseOk(ExportObject(session.stories, session.detailed_requirement),
                 Len(Exports.zip[3][2]) + 1)
C13_Witness ==
  /\ ExportsRendered /\ tool = "jira"
  /\ session.stories = <<FullStory, FullStory>>
  /\ Len(Exports.zip) = 4

\* C14: when run_agent_workflow returns without having reached the step
\* "completed", the agent state it returns has current_step "error" and an
\* error message.
C14_IncompleteIsError ==
  Returned =>
    \/ ret.agent_state.current_step = "completed"
    \/ /\ ret.agent_state.current_step = "error"
       /\ ret.agent_state.error # NoError

(***************************************************************************)
(* Properties of generate-enh-req.py.                                       *)
(***************************************************************************)
\* the script run of a click on "Generate Requirement" has ended, and its
\* model call raised
GenerationFailed ==
  /\ tool = "enhreq" /\ pc = "idle"
  /\ script.button = "generate" /\ script.generated # None
  /\ last.raised

\* C15: when the model call of generate-enh-req.py fails, the script run
\* shows an error message and renders neither the text download nor the PDF
\* download.
C15_GenerationFailureIsError ==
  GenerationFailed =>
    /\ ErrorShown
    /\ script.rendered \cap {"download_text", "download_pdf"} = {}

\* C16: the script run that a click on "Save to S3" starts, once a
\* requirement has been generated, calls upload_to_s3 with the generated
\* requirement.
C16_SaveUploadsRequirement ==
  (tool = "enhreq" /\ pc = "idle" /\ script.button = "save") =>
    \E k \in 1..Len(script.uploads) : script.uploads[k][1] = "generated"

(***************************************************************************)
(* Properties of the extraction functions.                                  *)
(***************************************************************************)
\* content[content.find(open):content.rfind(close) + 1], <<>> when content
\* holds no open
Bracketed(text, open, close) ==
  IF Find(text, open) = -1 THEN <<>>
  ELSE Slice(text, Find(text, open), RFind(text, close) + 1)
DenotesA(text, tag) == json_loads(text).ok /\ Tag(json_loads(text).val) = tag

\* C17: whatever the response text, a value other than None that
\* breakdown_requirement or breakdown_requirement_agent returns is a JSON
\* array, and one that create_jira_story or create_jira_story_agent returns
\* is a JSON object; a response whose bracketed substring is not valid JSON
\* of that kind gives None.
C17_ExtractedKind ==
  /\ extracted.fn \in {"breakdown_requirement", "breakdown_requirement_agent"} =>
       /\ extracted.ret # None => Tag(extracted.ret) = "arr"
       /\ ~DenotesA(Bracketed(content.text, "[", "]"), "arr") =>
            extracted.ret = None
  /\ extracted.fn \in {"create_jira_story", "create_jira_story_agent"} =>
       /\ extracted.ret # None => Tag(extracted.ret) = "obj"
       /\ ~DenotesA(Bracketed(content.text, "{", "}"), "obj") =>
            extracted.ret = None
C17_Witness ==
  /\ extracted.fn = "breakdown_requirement"
  /\ content.prefix = <<"{">> /\ content.suffix = <<"}">>
  /\ Tag(extracted.ret) = "arr" /\ extracted.ret # Arr(<<>>)

\* C18: the stories list run_agent_workflow returns holds, in task order, the
\* results of the tasks whose conversion gave a story: while task task_num is
\* converted the list holds fewer than task_num stories, a story is only
\* ever appended, as the result of the call for the current task, the task
\* number never decreases, and the list returned is the list built, never
\* longer than the task list.
InStoryLoop == tool = "agent" /\ pc \in {"story_enter", "story"}
C18_StoriesInTaskOrder ==
  /\ [](InStoryLoop => Len(stories) < task_num /\ task_num <= TaskCount)
  /\ [](Returned => Len(ret.stories) <= TaskCount)
  /\ [][InStoryLoop =>
          /\ task_num' >= task_num
          /\ \/ stories' = stories
             \/ /\ pc = "story" /\ CallEnded'
                /\ calls'[Len(calls')] = <<"story", task_num>>
                /\ Truthy(create_jira_story_agent(call', agent_state).ret)
                /\ stories' = Append(stories,
                     create_jira_story_agent(call', agent_state).ret)
                /\ pc' = "story_enter" => task_num' = task_num + 1
          /\ (pc = "story" /\ CallEnded' /\ uncaught' = ""
                /\ Truthy(create_jira_story_agent(call', agent_state).ret))
               => stories' # stories
          /\ pc' = "returned" => ret'.stories = stories']_vars
C18_Witness ==
  /\ Returned /\ TaskCount = 2 /\ Len(ret.stories) = 2
  /\ ret.stories[1] = PartialStory /\ ret.stories[2] = FullStory

(***************************************************************************)
(* Properties of the four tools.                                            *)
(***************************************************************************)
InputWarnings ==
  {Message("warning", "Please enter requirements first.", ""),
   Message("warning",
           "Please provide input using one of the available methods", "")}

\* C19: no tool makes a model call for an empty user input: jira-agent.py
\* runs run_agent_workflow only with a basic_requirement that is not empty,
\* jira.py makes the expansion call only for one that is not empty,
\* diagram.py calls the model only for requirements that are not empty and
\* generate-enh-req.py only for a processed_input that is not empty; the
\* warning of diagram.py and of generate-enh-req.py is shown by script runs
\* that made no model call.
C19_NoCallForEmptyInput ==
  /\ (tool = "agent" /\ (session.workflow_running \/ InWorkflow))
       => basic_requirement # <<>>
  /\ (tool = "jira" /\ LastKind = "expand") => basic_requirement # <<>>
  /\ (tool = "diagram" /\ last # NoOutcome) => widgets.requirements # <<>>
  /\ (tool = "diagram" /\ InputWarnings \cap shown # {})
       => widgets.requirements = <<>> /\ last = NoOutcome
  /\ (tool = "enhreq" /\ script.generated # None)
       => Payload(script.processed_input) # <<>>
  /\ (tool = "enhreq" /\ InputWarnings \cap shown # {})
       => /\ Payload(script.processed_input) = <<>>
          /\ script.generated = None
C19_Witness ==
  /\ tool = "enhreq" /\ pc = "idle" /\ script.button = "generate"
  /\ InputWarnings \cap shown # {}
  /\ widgets.input_method # "Type Text"

(***************************************************************************)
(* Properties of transcribe_audio.                                          *)
(***************************************************************************)
InTranscribe ==
  /\ tool = "enhreq"
  /\ pc \in {"start_transcription_job", "get_transcription_job",
             "get_transcript", "delete_transcription_job"}
TranscribeReturned == tool = "enhreq" /\ script.returned # NotReturned
Terminal == {"COMPLETED", "FAILED"}

\* C20: transcribe_audio polls the job status without a limit: a poll that
\* reads a status other than COMPLETED and FAILED is followed by another poll.
\* It returns only in a step in which one of its calls raises or after its
\* loop read COMPLETED or FAILED, it returns a transcript other than None
\* only after COMPLETED, and once the loop has read COMPLETED or FAILED it
\* returns.
C20_TranscribeReturns ==
  /\ [][(tool = "enhreq" /\ pc = "get_transcription_job" /\ ~last'.raised
           /\ last'.text[1] \notin Terminal)
          => pc' = "get_transcription_job" /\ ~TranscribeReturned']_vars
  /\ [][(InTranscribe /\ ~InTranscribe')
          => /\ TranscribeReturned'
             /\ last'.raised \/ script'.status \in Terminal
             /\ script'.returned # None
                  => /\ ~last'.raised /\ script'.status = "COMPLETED"
                     /\ pc = "delete_transcription_job"
                     /\ script'.returned = script.transcript]_vars
  /\ [](TranscribeReturned /\ script.returned # None
          => script.status = "COMPLETED")
  /\ (InTranscribe /\ script.status \in Terminal) ~> TranscribeReturned
C20_Witness ==
  /\ TranscribeReturned /\ script.returned = Str(<<>>)
  /\ script.status = "COMPLETED" /\ script.job = "deleted"

(***************************************************************************)
(* Properties of the resources and of the error outcomes.                   *)
(***************************************************************************)
\* C21: every transcription job transcribe_audio started has been deleted
\* when transcribe_audio returns, on every return path.
C21_JobDeletedOnReturn ==
  TranscribeReturned => script.job \in {"none", "deleted"}

\* C22: breakdown_requirement_agent and breakdown_requirement end with their
\* "Could not find valid task list" error whenever the response, not empty,
\* has no "[" or has no "]".
C22_MissingBracketIsNoTaskList ==
  (content.text # <<>> /\ (~Has(content.text, "[") \/ ~Has(content.text, "]")))
    => /\ extracted.fn = "breakdown_requirement_agent" =>
            breakdown_requirement_agent(ReturnedCall(content.text),
                                        AgentState).st.error.msg
              = "Could not find valid task list in response"
       /\ extracted.fn = "breakdown_requirement" =>
            breakdown_requirement(Returns(content.text)).err
              = "Could not find valid task list in Claude's response"

(***************************************************************************)
(* Properties of the session state.                                         *)
(***************************************************************************)
ProgressValues ==
  {10, 30, 40, 60, 100} \cup
  {story_progress(i, n) : i \in 1..MaxTasks, n \in 1..MaxTasks}

\* C23: during one run_agent_workflow execution agent_state.progress is an
\* integer of 0..100, one of 10, 30, 40, 60, int(60 + 30 i / n) and 100, and
\* never decreases; it is 100 exactly when current_step is "completed"; a
\* step that ends in set_error leaves it as it was.
C23_ProgressMonotone ==
  /\ [](InWorkflow =>
          /\ agent_state.progress \in ProgressValues
          /\ agent_state.progress \in 0..100
          /\ agent_state.progress = 100
               <=> agent_state.current_step = "completed")
  /\ [][(InWorkflow /\ InWorkflow') =>
          /\ agent_state'.progress >= agent_state.progress
          /\ (agent_state'.current_step = "error"
                /\ agent_state.current_step # "error")
               => agent_state'.progress = agent_state.progress]_vars
C23_Witness ==
  /\ Returned /\ agent_state.current_step = "error"
  /\ agent_state.progress = 40 /\ Len(calls) = 2

\* C24: in jira.py a session whose stories list is not empty has a
\* detailed_requirement that is set, so that create_pdf_report and
\* create_zip_archive are not called with None for it.
C24_StoriesHaveRequirement ==
  tool = "jira" =>
    /\ session.stories # <<>> =>
         /\ session.detailed_requirement # None
         /\ Truthy(session.detailed_requirement)
         /\ JiraDownloads(session).pdf[2] # None
    /\ uncaught # "AttributeError"
C24_Witness ==
  /\ tool = "jira" /\ pc = "idle" /\ Len(session.stories) = 2
  /\ LastKind = "expand" /\ last.raised

(***************************************************************************)
(* Properties of the input of generate-enh-req.py.                          *)
(***************************************************************************)
Succeeded(msgs) == \E m \in shown : m.level = "success" /\ m.msg \in msgs
\* the text of the document, when it was extracted, not empty, and uploaded
DocumentPart ==
  IF /\ Succeeded({"Document uploaded successfully!",
                   "Document uploaded to S3 successfully!"})
     /\ Truthy(extract_text_from_file(widgets.document).ret)
    THEN Payload(extract_text_from_file(widgets.document).ret)
  ELSE <<>>
\* the transcript, when the audio file was uploaded and transcribe_audio
\* returned a transcript that is not empty
AudioPart ==
  IF /\ Succeeded({"Audio uploaded successfully!",
                   "Audio file uploaded to S3 successfully!"})
     /\ script.returned \notin {NotReturned, None}
    THEN Payload(script.returned)
  ELSE <<>>

\* C25: when main of generate-enh-req.py reaches the generate button with an
\* upload input method, processed_input is the document text if that text
\* was extracted, not empty, and uploaded, the transcript if the audio file
\* was uploaded and its transcript is not empty, and otherwise empty; with
\* "Upload Document + Audio" it is both parts, the document first, when both
\* are there, the one part that is there, or empty.
C25_ProcessedInputFromUploads ==
  (tool = "enhreq" /\ pc = "buttons") =>
    /\ widgets.input_method = "Upload Document" =>
         script.processed_input = Str(DocumentPart)
    /\ widgets.input_method = "Upload Audio File" =>
         script.processed_input = Str(AudioPart)
    /\ widgets.input_method = "Upload Document + Audio" =>
         script.processed_input =
           IF DocumentPart # <<>> /\ AudioPart # <<>>
             THEN Str(<<"DOCUMENT CONTENT:", "\n">> \o DocumentPart
                        \o <<"\n", "\n", "AUDIO TRANSCRIPT:", "\n">>
                        \o AudioPart)
           ELSE Str(DocumentPart \o AudioPart)
C25_Witness ==
  /\ tool = "enhreq" /\ pc = "buttons"
  /\ widgets.input_method = "Upload Document + Audio"
  /\ DocumentPart = <<"d">> /\ AudioPart = <<"t">>
  /\ Len(Payload(script.processed_input)) = 8

(***************************************************************************)
(* Properties of diagram.py.                                                *)
(***************************************************************************)
\* C26: in diagram.py a generation attempt whose call raises leaves
\* mermaid_code and diagram_type of the session as they were and shows an
\* error; the session changes only in an attempt whose call returned, which
\* sets mermaid_code to the cleaned response and diagram_type to the selected
\* type; a session that has mermaid_code has diagram_type.
C26_FailedAttemptKeepsDiagram ==
  /\ [](tool = "diagram" =>
          (session.mermaid_code # Absent => session.diagram_type # Absent))
  /\ [][tool = "diagram" =>
          /\ last'.raised =>
               /\ session' = session
               /\ \E m \in shown' : m.level = "error"
          /\ session' # session =>
               /\ ~last'.raised /\ last' # NoOutcome
               /\ session'.mermaid_code = Str(clean_mermaid_code(last'.text))
               /\ session'.diagram_type = Str(<<widgets.diagram_type>>)]_vars
C26_Witness ==
  /\ tool = "diagram" /\ last.raised
  /\ session.mermaid_code # Absent /\ session.diagram_type = Str(<<"ER Diagram">>)
  /\ widgets.diagram_type = "Class Diagram"

(***************************************************************************)
(* Properties of the two story tools together.                              *)
(***************************************************************************)
\* both tools are done with the responses
PairDone ==
  /\ tool = "jira" /\ pc = "idle"
  /\ \/ LastKind \in {"breakdown", "story"}
     \/ LastKind = "expand" /\ ~Truthy(session.detailed_requirement)

\* C27: from an empty session and on the same model responses, none of the
\* calls failing, jira.py after "Expand Requirement" and "Break Down into
\* Tasks" and jira-agent.py after one run_agent_workflow execution hold the
\* same detailed requirement and the same stories in the same order.
C27_SameResults ==
  PairDone =>
    /\ ret.detailed_requirement = session.detailed_requirement
    /\ ret.stories = session.stories

\* C28: the text clean_mermaid_code returns, which main stores as
\* mermaid_code, never holds three backticks in a row.
C28_NoFenceLeft ==
  (tool = "diagram" /\ session.mermaid_code # Absent)
    => ~Contains(Payload(session.mermaid_code), Fence)

(***************************************************************************)
(* Properties of logger.py.                                                 *)
(***************************************************************************)
LinesIn(written, id, sinks) ==
  {k \in 1..Len(written) : written[k].id = id /\ written[k].sink \in sinks}
LinesOf(id, sinks) == LinesIn(logger.written, id, sinks)

\* C29: however many LLMLogger instances are constructed, the logger has the
\* two handlers of the first instance, a file handler on that instance's
\* log file and a console handler; no record is written twice to a sink,
\* every line of a file is in the log file of the first instance, a record
\* the logger's level lets through is written there once, and no record
\* below WARNING is written to the console.
C29_TwoHandlers ==
  /\ [](tool = "logger" /\ logger.instances >= 1 =>
          /\ Len(logger.handlers) = 2
          /\ logger.handlers[1] = Handler("file", INFO, logger.first_file)
          /\ logger.handlers[2] = Handler("console", WARNING, "console")
          /\ \A id \in 1..logger.records :
               /\ Cardinality(LinesOf(id, LogFiles)) <= 1
               /\ Cardinality(LinesOf(id, {"console"})) <= 1
               /\ LinesOf(id, LogFiles) = LinesOf(id, {logger.first_file})
          /\ \A k \in 1..Len(logger.written) :
               logger.written[k].sink = "console"
                 => logger.written[k].levelno >= WARNING)
  /\ [][(tool = "logger" /\ logger'.records = logger.records + 1) =>
          \A l \in {INFO, ERROR} :
            (logger' = log(logger, l) /\ l >= logger.level)
              => Cardinality(LinesIn(logger'.written, logger.records + 1,
                                     {logger.first_file})) = 1]_vars
C29_Witness ==
  /\ tool = "logger" /\ logger.instances = 3 /\ logger.records = 2
  /\ logger.first_file = "a.log" /\ logger.level = INFO
  /\ Len(logger.written) = 3
====
